---- MODULE Spec2Model ----
(***************************************************************************)
(* Page extraction of videoscan: the StabilityTracker, the single-frame    *)
(* page scan (VideoFrameExtractor.extractPagesFromVideo, as called by      *)
(* ScanService.processVideo) and the multi-frame page scan                 *)
(* (VideoFrameExtractorMulti.extractPagesWithMultiFrame).                  *)
(*                                                                         *)
(* Units.  Video time is counted in tenths of a second (0.3 s = 3), wall   *)
(* clock time (Date.now()) in milliseconds, motion scores and confidences  *)
(* in percent (0.15 = 15), histogram values as exact fractions num/den.    *)
(* The Euclidean distance of two points is compared through its square.    *)
(***************************************************************************)
EXTENDS Integers, Sequences, FiniteSets, TLC

VARIABLES
  tracker,      \* the StabilityTracker of the extractor: history, motionHistory, previousFrame
  now,          \* Date.now(), in ms
  call,         \* the most recent StabilityTracker call: its name, arguments and result
  nOps,         \* number of addDetection / reset calls made by the tracker's client
  video,        \* the extractor's video element: src, duration, currentTime
  canvas,       \* the frame last drawn on the extractor's canvas
  listeners,    \* the 'loadedmetadata' listeners of the video element, in order of registration
  pending,      \* the listeners that the dispatched 'loadedmetadata' event has yet to run
  ext,          \* per extractPagesFromVideo call: its closure and the position of its scan
  svc,          \* ScanService.processVideo: position, frames, processedFrames
  progress,     \* the value last passed to onProgress
  multi,        \* an extractPagesWithMultiFrame call: its closure and the position of its scan
  lib,          \* the most recent call of a function of the library: name, arguments, result
  usage,        \* public.usage_tracking: per user, the row of the current month
  clients       \* per concurrent processVideo call: its position, user and page count

trackerVars == <<tracker, now, call, nOps>>
pagesVars == <<video, canvas, listeners, pending, ext, svc>>
multiVars == <<multi>>
limitVars == <<usage, clients>>
vars == <<tracker, now, call, nOps, video, canvas, listeners, pending, ext, svc, progress, multi, lib,
          usage, clients>>

----------------------------------------------------------------------------
(* Bounds *)

MaxOps == 3          \* tracker calls of a run that draws detection and frame independently
MaxWindowOps == 12   \* tracker calls of a run that fills the history window
MaxTicks == 3        \* clock ticks of a run
TickMs == 500        \* length of a clock tick
MaxDuration == 29    \* longest video of the single-frame scan, in tenths of a second
MaxMultiDuration == 105  \* longest video of the multi-frame scan, in tenths of a second
MaxLongDuration == 39    \* the video that shows pages only, in tenths of a second
MaxShortDuration == 6    \* the videos of a service that scans twice, in tenths of a second
MaxImageSide == 4        \* longest side of an image that is corrected, in pixels
FrameSide == 3           \* side of a frame whose page is detected, in pixels
MaxContourPoints == 4    \* most points of a contour that is drawn from all the pixels
MaxBinCount == 2         \* most pixels in one bin of a histogram that is compared
MaxGroupFrames == 3      \* most frames of a group that is merged on its own
MaxMergeFrames == 2      \* most frames of a group that is merged with metrics
MaxDirectFrames == 2     \* largest maxFrames of a scan that a client starts itself
MaxClients == 2          \* processVideo calls that run at the same time
MaxScans == 6            \* most scans of one user in the month, finished or under way
MergeSide == 7           \* height of the larger frames that are merged with metrics

----------------------------------------------------------------------------
(* Values *)

\* null / undefined, and the result of a call that returns nothing; records,
\* so that they compare with the records they stand in for
Null == [null |-> TRUE]
Void == [void |-> TRUE]

Min(a, b) == IF a < b THEN a ELSE b
Max(a, b) == IF a > b THEN a ELSE b
Abs(a) == IF a < 0 THEN 0 - a ELSE a
Last(s) == s[Len(s)]

Pt(px, py) == [x |-> px, y |-> py]

Shift(q, dx, dy) == [i \in 1..4 |-> Pt(q[i].x + dx, q[i].y + dy)]

\* Corner sets a detector can report on the frames below.
QuadA == <<Pt(10, 10), Pt(90, 10), Pt(90, 110), Pt(10, 110)>>
\* every corner exactly 20 px away from QuadA
QuadNear == Shift(QuadA, 12, 16)
\* only the last corner moved, by 21 px
QuadFar == [QuadA EXCEPT ![4] = Pt(31, 110)]

Quads == {QuadA, QuadNear, QuadFar}

\* A frame is a 10 x 10 RGBA image whose first lit pixels are white and
\* whose other pixels are black.
Frame(k) == [width |-> 10, height |-> 10, lit |-> k]

Frames == {Frame(0), Frame(30)}

\* imageData.data[i]
DataAt(f, i) ==
  IF i % 4 = 3 THEN 255
  ELSE IF (i \div 4) < f.lit THEN 255 ELSE 0

----------------------------------------------------------------------------
(* pageDetection: options, distance, detectMotion *)

DEFAULT_OPTIONS ==
  [minArea |-> 20, maxSkewAngle |-> 30, stabilityThreshold |-> 10,
   stabilityDuration |-> 300, motionThreshold |-> 15]

maxHistory == 10

\* distance(p1, p2) squared
DistSq(p1, p2) == (p2.x - p1.x) * (p2.x - p1.x) + (p2.y - p1.y) * (p2.y - p1.y)

\* number of sampled pixels (every 10th: i = 0, 40, 80, ...) that changed
RECURSIVE ChangedPixels(_, _, _, _)
ChangedPixels(current, previous, i, threshold) ==
  IF i >= current.width * current.height * 4 THEN 0
  ELSE LET diff == Abs(DataAt(current, i) - DataAt(previous, i))
                   + Abs(DataAt(current, i + 1) - DataAt(previous, i + 1))
                   + Abs(DataAt(current, i + 2) - DataAt(previous, i + 2))
       IN  (IF diff > threshold * 3 THEN 1 ELSE 0)
           + ChangedPixels(current, previous, i + 40, threshold)

\* detectMotion(currentFrame, previousFrame, threshold = 30), in percent
detectMotion(currentFrame, previousFrame) ==
  IF previousFrame = Null THEN 0
  ELSE LET totalPixels == currentFrame.width * currentFrame.height
           changedPixels == ChangedPixels(currentFrame, previousFrame, 0, 30)
       IN  Min(100, (changedPixels * 10 * 100) \div totalPixels)

----------------------------------------------------------------------------
(* pageDetection: toGrayscale, calculateHistogram, compareHistograms *)

RECURSIVE Gcd(_, _)
Gcd(a, b) == IF b = 0 THEN a ELSE CHOOSE g \in {Gcd(b, r) : r \in {a % b}} : TRUE

\* the fraction n / d in lowest terms
Rat(n, d) == LET g == Gcd(Abs(n), d) IN [num |-> n \div g, den |-> d \div g]

RatAdd(p, q) == Rat(p.num * q.den + q.num * p.den, p.den * q.den)
RatLess(p, q) == p.num * q.den < q.num * p.den

\* toGrayscale: 0.299 R + 0.587 G + 0.114 B stored in a Uint8ClampedArray
GrayAt(f, idx) ==
  (299 * DataAt(f, idx * 4) + 587 * DataAt(f, idx * 4 + 1)
     + 114 * DataAt(f, idx * 4 + 2) + 500) \div 1000

HistBins == 32

\* A histogram is kept as the numerators of its non-zero bins over one
\* denominator: bin i holds nz[i] / den, and 0 when i is not in DOMAIN nz.
BinNum(h, i) == IF i \in DOMAIN h.nz THEN h.nz[i] ELSE 0

RECURSIVE GcdAll(_, _)
GcdAll(S, g) ==
  IF S = {} THEN g
  ELSE CHOOSE all \in {GcdAll(S \ {n}, Gcd(n, g)) : n \in {CHOOSE n \in S : TRUE}} : TRUE

\* the same histogram over the smallest denominator, zero bins left out
HistNorm(h) ==
  LET used == {b \in DOMAIN h.nz : h.nz[b] > 0}
      g == GcdAll({h.nz[b] : b \in used}, h.den)
  IN  [nz |-> [b \in used |-> h.nz[b] \div g], den |-> h.den \div g]

\* calculateHistogram(imageData, bins = 32): the central 80% x 80% region
calculateHistogram(f) ==
  LET binSize == 256 \div HistBins
      \* centerX - regionWidth / 2 <= x < centerX + regionWidth / 2, for the
      \* widths and heights that are multiples of 10
      xs == {x \in 0..(f.width - 1) : 10 * x >= f.width /\ 10 * x < 9 * f.width}
      ys == {y \in 0..(f.height - 1) : 10 * y >= f.height /\ 10 * y < 9 * f.height}
      BinOf(x, y) == Min(GrayAt(f, y * f.width + x) \div binSize, HistBins - 1)
      Count(b) == Cardinality({c \in xs \X ys : BinOf(c[1], c[2]) = b})
      count == Cardinality(xs \X ys)
      used == {BinOf(c[1], c[2]) : c \in xs \X ys}
  IN  HistNorm([nz |-> [b \in used |-> Count(b)], den |-> count])

\* compareHistograms(hist1, hist2): sum of diff^2 / sum over the bins whose
\* sum is positive, as an exact fraction
RECURSIVE ChiSquare(_, _, _)
ChiSquare(hist1, hist2, i) ==
  IF i >= HistBins THEN Rat(0, 1)
  ELSE CHOOSE sum \in
         {IF a + b > 0
          THEN RatAdd(Rat((a - b) * (a - b), (a + b) * hist1.den * hist2.den), rest)
          ELSE rest :
            a \in {BinNum(hist1, i) * hist2.den},
            b \in {BinNum(hist2, i) * hist1.den},
            rest \in {ChiSquare(hist1, hist2, i + 1)}} : TRUE

\* without the test of the sum, a bin that is empty in both histograms adds
\* 0 / 0 to the distance, which stays NaN
compareHistograms_Unguarded(hist1, hist2) ==
  IF \E i \in 0..(HistBins - 1) : BinNum(hist1, i) = 0 /\ BinNum(hist2, i) = 0
  THEN [k |-> "nan", num |-> 0, den |-> 1, neg |-> FALSE]
  ELSE ChiSquare(hist1, hist2, 0)

compareHistograms(hist1, hist2) == ChiSquare(hist1, hist2, 0)

----------------------------------------------------------------------------
(* Numbers: the values of the number type that the geometry produces.  A  *)
(* finite value is the exact fraction num / den with the sign bit neg (a   *)
(* zero keeps its sign), the others are NaN and the two infinities.        *)

Fin(n, d) ==
  LET r == Rat(n, d) IN [k |-> "fin", num |-> r.num, den |-> r.den, neg |-> n < 0]

Num(n) == Fin(n, 1)

NaN == [k |-> "nan", num |-> 0, den |-> 1, neg |-> FALSE]

Infinity(neg) == [k |-> "inf", num |-> 0, den |-> 1, neg |-> neg]

IsZero(a) == a.k = "fin" /\ a.num = 0

\* -a
Negate(a) ==
  IF a.k = "nan" THEN a
  ELSE IF a.k = "inf" THEN Infinity(~a.neg)
  ELSE [a EXCEPT !.num = 0 - a.num, !.neg = ~a.neg]

\* a * b
Times(a, b) ==
  IF a.k = "nan" \/ b.k = "nan" THEN NaN
  ELSE IF a.k = "inf" \/ b.k = "inf"
       THEN IF IsZero(a) \/ IsZero(b) THEN NaN ELSE Infinity(a.neg # b.neg)
       ELSE [Fin(a.num * b.num, a.den * b.den) EXCEPT !.neg = (a.neg # b.neg)]

\* a + b
Plus(a, b) ==
  IF a.k = "nan" \/ b.k = "nan" THEN NaN
  ELSE IF a.k = "inf" /\ b.k = "inf"
       THEN IF a.neg = b.neg THEN a ELSE NaN
       ELSE IF a.k = "inf" THEN a
       ELSE IF b.k = "inf" THEN b
       ELSE LET sum == Fin(a.num * b.den + b.num * a.den, a.den * b.den)
            IN  IF sum.num = 0
                THEN [sum EXCEPT !.neg = (IsZero(a) /\ IsZero(b) /\ a.neg /\ b.neg)]
                ELSE sum

\* a - b
Minus(a, b) == Plus(a, Negate(b))

\* a / b
Over(a, b) ==
  IF a.k = "nan" \/ b.k = "nan" THEN NaN
  ELSE IF a.k = "inf"
       THEN IF b.k = "inf" THEN NaN ELSE Infinity(a.neg # b.neg)
       ELSE IF b.k = "inf" THEN [Num(0) EXCEPT !.neg = (a.neg # b.neg)]
       ELSE IF b.num = 0
            THEN IF a.num = 0 THEN NaN ELSE Infinity(a.neg # b.neg)
            ELSE [Fin((IF b.num < 0 THEN 0 - 1 ELSE 1) * a.num * b.den,
                      a.den * Abs(b.num))
                    EXCEPT !.neg = (a.neg # b.neg)]

\* Math.abs(a)
AbsOf(a) ==
  IF a.k = "nan" THEN a
  ELSE IF a.k = "inf" THEN Infinity(FALSE)
  ELSE [a EXCEPT !.num = Abs(a.num), !.neg = FALSE]

\* a < b; false when either is NaN
Less(a, b) ==
  IF a.k = "nan" \/ b.k = "nan" THEN FALSE
  ELSE IF a.k = "inf" THEN a.neg /\ ~(b.k = "inf" /\ b.neg)
  ELSE IF b.k = "inf" THEN ~b.neg
  ELSE a.num * b.den < b.num * a.den

\* a >= b; false when either is NaN
AtLeast(a, b) ==
  IF a.k = "nan" \/ b.k = "nan" THEN FALSE
  ELSE ~Less(a, b)

----------------------------------------------------------------------------
(* pageDetection: perspective correction *)

\* A value that a function uses more than once is bound to the one element
\* of a set, which computes it once:
\*   CHOOSE result \in {F(value) : value \in {expression}} : TRUE

\* an image with its own pixel data: data[i] for 0 <= i < width * height * 4
Image(w, h, data) == [width |-> w, height |-> h, data |-> data]

\* the ImageData that getImageData returns on a canvas that shows frame f
ImageOf(f) == Image(f.width, f.height, [i \in 0..(f.width * f.height * 4 - 1) |-> DataAt(f, i)])

\* the result of a call that throws
Throws(message) == [throws |-> message]

\* solveLinearSystem(A, b), forward elimination from column i on: the pivot
\* is the first row of greatest absolute value in column i, below it the
\* column is set to 0 and the rows are reduced
RECURSIVE MaxRow(_, _, _, _)
MaxRow(aug, i, k, maxRow) ==
  IF k > 8 THEN maxRow
  ELSE MaxRow(aug, i, k + 1,
              IF Less(AbsOf(aug[maxRow][i]), AbsOf(aug[k][i])) THEN k ELSE maxRow)

RECURSIVE Eliminate(_, _)
Eliminate(aug, i) ==
  IF i > 8 THEN aug
  ELSE LET swap(maxRow) == [aug EXCEPT ![i] = aug[maxRow], ![maxRow] = aug[i]]
           entry(swapped, k, j) ==
             IF k <= i \/ j < i THEN swapped[k][j]
             ELSE IF j = i THEN Num(0)
             ELSE Minus(swapped[k][j],
                        Times(Over(swapped[k][i], swapped[i][i]), swapped[i][j]))
           row(s, k) == <<entry(s, k, 1), entry(s, k, 2), entry(s, k, 3), entry(s, k, 4),
                          entry(s, k, 5), entry(s, k, 6), entry(s, k, 7), entry(s, k, 8),
                          entry(s, k, 9)>>
           reduced(s) == <<row(s, 1), row(s, 2), row(s, 3), row(s, 4),
                           row(s, 5), row(s, 6), row(s, 7), row(s, 8)>>
       IN  CHOOSE result \in
             {Eliminate(next, i + 1) :
                next \in {reduced(swapped) :
                            swapped \in {swap(maxRow) :
                                           maxRow \in {MaxRow(aug, i, i + 1, i)}}}} : TRUE

\* back substitution from row i up
RECURSIVE BackSubstitute(_, _, _)
BackSubstitute(aug, x, i) ==
  IF i < 1 THEN x
  ELSE LET row(k, xi) == IF k < i
                         THEN [aug[k] EXCEPT ![9] = Minus(@, Times(aug[k][i], xi))]
                         ELSE aug[k]
           rows(xi) == <<row(1, xi), row(2, xi), row(3, xi), row(4, xi),
                         row(5, xi), row(6, xi), row(7, xi), row(8, xi)>>
       IN  CHOOSE result \in
             {BackSubstitute(next[1], next[2], i - 1) :
                next \in {<<rows(xi), [x EXCEPT ![i] = xi]>> :
                            xi \in {Over(aug[i][9], aug[i][i])}}} : TRUE

\* solveLinearSystem(A, b) on the augmented matrix [A | b]
solveLinearSystem(augmented) ==
  CHOOSE x \in
    {BackSubstitute(aug, <<Num(0), Num(0), Num(0), Num(0), Num(0), Num(0), Num(0), Num(0)>>, 8) :
       aug \in {Eliminate(augmented, 1)}} : TRUE

\* calculateHomography(src, dst): h[1..8], with H[2][2] = 1
calculateHomography(src, dst) ==
  LET row(r) ==
        LET i == (r + 1) \div 2
            x == Num(src[i].x)
            y == Num(src[i].y)
            X == Num(dst[i].x)
            Y == Num(dst[i].y)
        IN  IF r % 2 = 1
            THEN <<x, y, Num(1), Num(0), Num(0), Num(0),
                   Times(Negate(X), x), Times(Negate(X), y), X>>
            ELSE <<Num(0), Num(0), Num(0), x, y, Num(1),
                   Times(Negate(Y), x), Times(Negate(Y), y), Y>>
  IN  CHOOSE h \in
        {solveLinearSystem(augmented) :
           augmented \in {<<row(1), row(2), row(3), row(4),
                            row(5), row(6), row(7), row(8)>>}} : TRUE

\* applyHomography(point, H)
applyHomography(px, py, h) ==
  LET x == Num(px)
      y == Num(py)
      w == Plus(Plus(Times(h[7], x), Times(h[8], y)), Num(1))
  IN  [x |-> Over(Plus(Plus(Times(h[1], x), Times(h[2], y)), h[3]), w),
       y |-> Over(Plus(Plus(Times(h[4], x), Times(h[5], y)), h[6]), w)]

\* Math.round(Math.sqrt(n)) for a whole number n
RoundSqrt(n) ==
  CHOOSE r \in 0..400 : (r = 0 \/ (2 * r - 1) * (2 * r - 1) <= 4 * n)
                          /\ 4 * n < (2 * r + 1) * (2 * r + 1)

\* Math.floor and Math.ceil of a finite value that is not negative
FloorOf(a) == a.num \div a.den
CeilOf(a) == (a.num + a.den - 1) \div a.den

\* the bilinear interpolation of channel c at (srcX, srcY), rounded
Interpolate(imageData, srcX, srcY, c) ==
  LET x0 == FloorOf(srcX)
      x1 == CeilOf(srcX)
      y0 == FloorOf(srcY)
      y1 == CeilOf(srcY)
      \* fx = fxn / srcX.den, fy = fyn / srcY.den
      fxn == srcX.num - x0 * srcX.den
      fyn == srcY.num - y0 * srcY.den
      at(px, py) == imageData.data[(py * imageData.width + px) * 4 + c]
      \* p0 and p1 times srcX.den
      p0 == at(x0, y0) * (srcX.den - fxn) + at(x1, y0) * fxn
      p1 == at(x0, y1) * (srcX.den - fxn) + at(x1, y1) * fxn
      \* the value times srcX.den * srcY.den
      v == p0 * (srcY.den - fyn) + p1 * fyn
      d == srcX.den * srcY.den
  IN  \* Math.round
      (2 * v + d) \div (2 * d)

\* srcX >= 0 && srcX < srcWidth - 1 && srcY >= 0 && srcY < srcHeight - 1
InBounds(srcPoint, srcWidth, srcHeight) ==
  /\ AtLeast(srcPoint.x, Num(0)) /\ Less(srcPoint.x, Num(srcWidth - 1))
  /\ AtLeast(srcPoint.y, Num(0)) /\ Less(srcPoint.y, Num(srcHeight - 1))

\* applyPerspectiveCorrection(imageData, srcCorners), without target size
applyPerspectiveCorrection(imageData, srcCorners) ==
  LET targetWidth == RoundSqrt(Max(DistSq(srcCorners[1], srcCorners[2]),
                                   DistSq(srcCorners[4], srcCorners[3])))
      targetHeight == RoundSqrt(Max(DistSq(srcCorners[1], srcCorners[4]),
                                    DistSq(srcCorners[2], srcCorners[3])))
      dstCorners == <<Pt(0, 0), Pt(targetWidth, 0),
                      Pt(targetWidth, targetHeight), Pt(0, targetHeight)>>
      sample(srcPoint, c) ==
        IF InBounds(srcPoint, imageData.width, imageData.height)
        THEN Interpolate(imageData, srcPoint.x, srcPoint.y, c)
        ELSE 255
      pixel(i, H) ==
        CHOOSE value \in {sample(srcPoint, i % 4) :
                            srcPoint \in {applyHomography((i \div 4) % targetWidth,
                                                          (i \div 4) \div targetWidth, H)}} : TRUE
  IN  \* new ImageData(sw, sh) throws when a side is 0
      IF targetWidth = 0 \/ targetHeight = 0
      THEN Throws("IndexSizeError")
      ELSE Image(targetWidth, targetHeight,
                 CHOOSE data \in {[i \in 0..(targetWidth * targetHeight * 4 - 1) |-> pixel(i, H)] :
                                    H \in {calculateHomography(dstCorners, srcCorners)}} : TRUE)

\* canvas.toBlob / canvasToBlob: the encoded picture of an image
Blob(image) == [type |-> "image/jpeg", width |-> image.width, height |-> image.height,
                data |-> image.data]

\* extractCorrectedPage(canvas, ctx, pageDetection) on a canvas that shows
\* imageData: the blob of the corrected image, or what the call throws
extractCorrectedPage(imageData, corners) ==
  CHOOSE blob \in
    {IF "throws" \in DOMAIN correctedData THEN correctedData ELSE Blob(correctedData) :
       correctedData \in {applyPerspectiveCorrection(imageData, corners)}} : TRUE

\* the blob of a detected page in captureFrame and in processPageCandidates:
\* try extractCorrectedPage, catch: the blob of the uncorrected image
PageBlob(imageData, corners) ==
  CHOOSE finalBlob \in
    {IF "throws" \in DOMAIN blob THEN Blob(imageData) ELSE blob :
       blob \in {extractCorrectedPage(imageData, corners)}} : TRUE

----------------------------------------------------------------------------
(* pageDetection: from the contours of a frame to the corners of its page *)

\* Math.sqrt(n) in thousandths, rounded down, by bisection
RECURSIVE Bisect(_, _, _)
Bisect(n, lo, hi) ==
  IF hi - lo <= 1 THEN lo
  ELSE LET mid == (lo + hi) \div 2
       IN  IF mid * mid <= n THEN Bisect(n, mid, hi) ELSE Bisect(n, lo, mid)

Sqrt1000(p) == Bisect((p.num * 1000000) \div p.den, 0, 46341)

Cross(o, a, b) == (a.x - o.x) * (b.y - o.y) - (a.y - o.y) * (b.x - o.x)

\* calculatePolygonArea(points): shoelace formula, Math.abs(area) / 2
calculatePolygonArea(points) ==
  LET n == Len(points)
      term(i) == points[i].x * points[(i % n) + 1].y - points[(i % n) + 1].x * points[i].y
      sum[i \in 0..n] == IF i = 0 THEN 0 ELSE sum[i - 1] + term(i)
  IN  Rat(Abs(sum[n]), 2)

\* calculatePerimeter(points), in thousandths
calculatePerimeter(points) ==
  LET n == Len(points)
      side(i) == Sqrt1000(Rat(DistSq(points[i], points[(i % n) + 1]), 1))
      sum[i \in 0..n] == IF i = 0 THEN 0 ELSE sum[i - 1] + side(i)
  IN  sum[n]

\* angleA < angleB for angleA = Math.atan2(v.y, v.x) and angleB =
\* Math.atan2(w.y, w.x): the angles lie in (-pi, pi], and atan2(0, 0) = 0
AngleLess(v, w) ==
  LET dir(u) == IF u.x = 0 /\ u.y = 0 THEN Pt(1, 0) ELSE u
      a == dir(v)
      b == dir(w)
      lower(u) == u.y < 0
      cross == a.x * b.y - a.y * b.x
  IN  IF lower(a) # lower(b) THEN lower(a)
      ELSE IF cross # 0 THEN cross > 0
      ELSE \* the same direction, or the angles 0 and pi
           a.y = 0 /\ b.y = 0 /\ a.x > 0 /\ b.x < 0

\* array.sort((a, b) => angleA - angleB), stable: s ordered by the angles
\* of the vectors v, v[i] being the vector of s[i]
SortByAngle(s, v) ==
  LET \* the place of s[i]: behind the smaller elements and the earlier equal ones
      place(i) == 1 + Cardinality({j \in 1..Len(s) :
                        \/ AngleLess(v[j], v[i])
                        \/ (j < i /\ ~AngleLess(v[i], v[j]))})
  IN  [m \in 1..Len(s) |-> s[CHOOSE i \in 1..Len(s) : place(i) = m]]

\* the hull of the Graham scan after the points of sorted from index i on
RECURSIVE Scan(_, _, _)
Scan(hull, sorted, i) ==
  IF i > Len(sorted) THEN hull
  ELSE LET p == sorted[i]
           pops == Len(hull) > 1 /\ Cross(hull[Len(hull) - 1], hull[Len(hull)], p) <= 0
       IN  CHOOSE result \in
             {Scan(next, sorted, IF pops THEN i ELSE i + 1) :
                next \in {IF pops THEN SubSeq(hull, 1, Len(hull) - 1)
                                  ELSE Append(hull, p)}} : TRUE

\* convexHull(points): the points are those of one contour, all different
convexHull(points) ==
  IF Len(points) < 3 THEN points
  ELSE LET start == CHOOSE p \in {points[i] : i \in 1..Len(points)} :
                      \A i \in 1..Len(points) :
                        p.y < points[i].y \/ (p.y = points[i].y /\ p.x <= points[i].x)
           others == SelectSeq(points, LAMBDA p : p # start)
           fromStart == [i \in 1..Len(others) |->
                           Pt(others[i].x - start.x, others[i].y - start.y)]
       IN  CHOOSE hull \in
             {Scan(<<start>>, sorted, 1) :
                sorted \in {SortByAngle(others, fromStart)}} : TRUE

\* pointToLineDistance(point, lineStart, lineEnd), squared
pointToLineDistanceSq(point, lineStart, lineEnd) ==
  LET A == point.x - lineStart.x
      B == point.y - lineStart.y
      C == lineEnd.x - lineStart.x
      D == lineEnd.y - lineStart.y
      dot == A * C + B * D
      lenSq == C * C + D * D
  IN  IF lenSq = 0 \/ dot < 0 THEN Rat(A * A + B * B, 1)
      ELSE IF dot > lenSq THEN Rat(DistSq(point, lineEnd), 1)
      ELSE \* dx = A - param * C, dy = B - param * D, param = dot / lenSq
           Rat((A * lenSq - dot * C) * (A * lenSq - dot * C)
                 + (B * lenSq - dot * D) * (B * lenSq - dot * D),
               lenSq * lenSq)

\* approximatePolygon(points, epsilon), epsilon in thousandths
RECURSIVE approximatePolygon(_, _)
approximatePolygon(points, epsilon) ==
  IF Len(points) < 3 THEN points
  ELSE LET first == points[1]
           last == points[Len(points)]
           dist(i) == pointToLineDistanceSq(points[i], first, last)
           inner == 2..(Len(points) - 1)
           \* the first index of greatest distance, 0 when all distances are 0
           far == {i \in inner : /\ dist(i).num > 0
                                 /\ \A j \in inner : ~RatLess(dist(i), dist(j))}
           maxIdx == IF far = {} THEN 0 ELSE CHOOSE i \in far : \A j \in far : i <= j
           split(at) ==
             CHOOSE result \in
               {SubSeq(left, 1, Len(left) - 1) \o right :
                  left \in {approximatePolygon(head, epsilon) :
                              head \in {SubSeq(points, 1, at)}},
                  right \in {approximatePolygon(tail, epsilon) :
                               tail \in {SubSeq(points, at, Len(points))}}} : TRUE
       IN  CHOOSE result \in
             {IF at # 0 /\ Sqrt1000(dist(at)) > epsilon THEN split(at) ELSE <<first, last>> :
                at \in {maxIdx}} : TRUE

\* findBestQuadrilateral(points): the first 4 points, in the order of the
\* loops, of the greatest area; [] when no area is above 0
findBestQuadrilateral(points) ==
  LET n == Len(points)
      combos == {c \in (1..n) \X (1..n) \X (1..n) \X (1..n) :
                   c[1] < c[2] /\ c[2] < c[3] /\ c[3] < c[4]}
      quad(c) == <<points[c[1]], points[c[2]], points[c[3]], points[c[4]]>>
      before(c, d) ==
        \E m \in 1..4 : c[m] < d[m] /\ \A r \in 1..(m - 1) : c[r] = d[r]
      best == {c \in combos :
                 /\ calculatePolygonArea(quad(c)).num > 0
                 /\ \A d \in combos :
                      /\ ~RatLess(calculatePolygonArea(quad(c)), calculatePolygonArea(quad(d)))
                      /\ (calculatePolygonArea(quad(d)) = calculatePolygonArea(quad(c))
                            => (d = c \/ before(c, d)))}
  IN  IF best = {} THEN <<>> ELSE quad(CHOOSE c \in best : TRUE)

\* findQuadrilateral(contour): 4 points, [] or null
findQuadrilateral(contour) ==
  CHOOSE result \in
    {IF Len(approx) = 4 THEN approx
     ELSE IF Len(approx) > 4 THEN findBestQuadrilateral(approx)
     ELSE Null :
       approx \in {approximatePolygon(hull[1], hull[2]) :
                     \* the hull and epsilon = perimeter * 0.02
                     hull \in {<<h, calculatePerimeter(h) \div 50>> :
                                 h \in {convexHull(contour)}}}} : TRUE

orderCorners_Sorted(corners) ==
  LET cx == corners[1].x + corners[2].x + corners[3].x + corners[4].x
      cy == corners[1].y + corners[2].y + corners[3].y + corners[4].y
      fromCenter(p) == Pt(4 * p.x - cx, 4 * p.y - cy)
      sorted == SortByAngle(corners, [i \in 1..4 |-> fromCenter(corners[i])])
  IN  <<sorted[1], sorted[2], sorted[3], sorted[4]>>

\* orderCorners(corners)
orderCorners(corners) ==
  LET \* 4 * center
      cx == corners[1].x + corners[2].x + corners[3].x + corners[4].x
      cy == corners[1].y + corners[2].y + corners[3].y + corners[4].y
      fromCenter(p) == Pt(4 * p.x - cx, 4 * p.y - cy)
      sum(p) == p.x + p.y
      topLeftIdx(sorted) ==
        CHOOSE i \in 1..4 :
          /\ \A j \in 1..4 : sum(sorted[i]) <= sum(sorted[j])
          /\ \A j \in 1..(i - 1) : sum(sorted[j]) > sum(sorted[i])
      turned(sorted, start) ==
        <<sorted[start], sorted[(start % 4) + 1],
          sorted[((start + 1) % 4) + 1], sorted[((start + 2) % 4) + 1]>>
  IN  CHOOSE ordered \in
        {turned(sorted, topLeftIdx(sorted)) :
           sorted \in {SortByAngle(corners, [i \in 1..4 |-> fromCenter(corners[i])])}} : TRUE

Better_AnyArea(area, frameArea, minArea, maxArea) ==
  RatLess(maxArea, area)

\* areaRatio >= opts.minArea && area > maxArea; minArea in percent
Better(area, frameArea, minArea, maxArea) ==
  /\ ~RatLess(Rat(area.num * 100, area.den * frameArea), Rat(minArea, 1))
  /\ RatLess(maxArea, area)

\* the quadrilateral that the loop of detectPage over the contours selects,
\* from contour i on
RECURSIVE SelectQuad(_, _, _, _, _, _)
SelectQuad(contours, i, frameArea, minArea, bestQuad, maxArea) ==
  IF i > Len(contours) THEN bestQuad
  ELSE LET areaOf(quad) == IF quad = Null THEN Rat(0, 1) ELSE calculatePolygonArea(quad)
           better(quad) == quad # Null /\ Better(areaOf(quad), frameArea, minArea, maxArea)
       IN  CHOOSE result \in
             {SelectQuad(contours, i + 1, frameArea, minArea, next[1], next[2]) :
                next \in {IF better(quad) THEN <<quad, areaOf(quad)>>
                                           ELSE <<bestQuad, maxArea>> :
                            quad \in {findQuadrilateral(contours[i])}}} : TRUE

\* detectPage from the contours of the frame on: the ordered corners of the
\* page, or null
detectPageCorners(contours, frameArea, minArea) ==
  CHOOSE result \in
    {IF bestQuad = Null THEN Null ELSE orderCorners(bestQuad) :
       bestQuad \in {SelectQuad(contours, 1, frameArea, minArea, Null, Rat(0, 1))}} : TRUE

----------------------------------------------------------------------------
(* StabilityTracker *)

\* new StabilityTracker(): options = DEFAULT_OPTIONS merged with {}
NewTracker ==
  [history |-> <<>>, motionHistory |-> <<>>, previousFrame |-> Null]

\* pop in place of shift
PushBounded_DropNewest(s, e) ==
  LET pushed == Append(s, e)
  IN  IF Len(pushed) > maxHistory THEN SubSeq(pushed, 1, maxHistory) ELSE pushed

\* push followed by shift when the list grew beyond maxHistory
PushBounded(s, e) ==
  LET pushed == Append(s, e)
  IN  IF Len(pushed) > maxHistory THEN Tail(pushed) ELSE pushed

\* a timeout that already strikes at 1000 ms
TimedOut_At1000(tr, t) == t - Last(tr.history).timestamp >= 1000

\* timeSinceLastDetection > 1000, at wall clock time t
TimedOut(tr, t) ==
  LET recentDetections == SubSeq(tr.history, Max(1, Len(tr.history) - 2), Len(tr.history))
      timeSinceLastDetection == t - recentDetections[Len(recentDetections)].timestamp
  IN  timeSinceLastDetection > 1000

\* addDetection(detection, currentFrame) at wall clock time t
addDetection(tr, detection, currentFrame, t) ==
  LET motionHistory1 ==
        IF currentFrame # Null /\ tr.previousFrame # Null
        THEN PushBounded(tr.motionHistory,
                         [motionScore |-> detectMotion(currentFrame, tr.previousFrame)])
        ELSE tr.motionHistory
      previousFrame1 ==
        IF currentFrame # Null THEN currentFrame ELSE tr.previousFrame
      history1 ==
        IF detection # Null
        THEN PushBounded(tr.history, detection)
        ELSE IF Len(tr.history) > 0
             THEN IF TimedOut(tr, t) THEN <<>> ELSE tr.history
             ELSE tr.history
  IN  [history |-> history1, motionHistory |-> motionHistory1,
       previousFrame |-> previousFrame1]

\* history.slice(-n)
SliceLast(s, n) == SubSeq(s, Max(1, Len(s) - n + 1), Len(s))

\* a tracker content with one detection passes
TooFewDetections_One(tr) == Len(tr.history) < 1

\* this.history.length < 2
TooFewDetections(tr) == Len(tr.history) < 2

\* isStable()
isStable(tr) ==
  IF TooFewDetections(tr) THEN FALSE
  ELSE
    LET recentMotion == SliceLast(tr.motionHistory, 2)
        \* avgMotion > motionThreshold, avgMotion = (m1 + m2) / 2
        highMotion ==
          /\ Len(tr.motionHistory) >= 2
          /\ recentMotion[1].motionScore + recentMotion[2].motionScore
               > 2 * DEFAULT_OPTIONS.motionThreshold
        recent == SliceLast(tr.history, 2)
        first == recent[1]
        \* dist > stabilityThreshold * 2
        moved ==
          \E i \in 2..Len(recent) : \E j \in 1..4 :
            DistSq(first.corners[j], recent[i].corners[j])
              > (DEFAULT_OPTIONS.stabilityThreshold * 2) * (DEFAULT_OPTIONS.stabilityThreshold * 2)
    IN  IF highMotion THEN FALSE
        ELSE IF moved THEN FALSE
        ELSE TRUE

\* the oldest detection in place of the latest
getStableDetection_Oldest(tr) ==
  IF ~isStable(tr) \/ Len(tr.history) = 0 THEN Null
  ELSE tr.history[1]

\* getStableDetection()
getStableDetection(tr) ==
  IF ~isStable(tr) \/ Len(tr.history) = 0 THEN Null
  ELSE tr.history[Len(tr.history)]

\* a reset that forgets the frame too
reset_DropFrame(tr) == NewTracker

\* reset(): previousFrame is kept
reset(tr) == [tr EXCEPT !.history = <<>>, !.motionHistory = <<>>]

\* detectPage stamps its result with Date.now()
Detection(q, c, t) == [corners |-> q, confidence |-> c, timestamp |-> t]

Call(op, d, f, r) == [op |-> op, detection |-> d, frame |-> f, result |-> r]

----------------------------------------------------------------------------
(* What a video shows *)

\* One sampled instant of a video: the pixels, what detectPage finds on
\* them (corners and confidence, or null) and what analyzeFrameQuality
\* measures on them.
Scene(f, p, q) == [frame |-> f, page |-> p, quality |-> q]

Page(q, c) == [corners |-> q, confidence |-> c]

SceneBlank == Scene(Frame(0), Null, 50)
SceneFlip == Scene(Frame(20), Null, 5)
ScenePageA == Scene(Frame(10), Page(QuadA, 90), 50)
ScenePageB == Scene(Frame(40), Page(QuadNear, 90), 50)
SceneSkewed == Scene(Frame(10), Page(QuadFar, 40), 50)
SceneBlurred == Scene(Frame(30), Page(QuadA, 90), 5)

Scenes == {SceneBlank, SceneFlip, ScenePageA, ScenePageB}

\* calculateHistogram on every frame a scene shows
FrameHistogram ==
  [f \in {Frame(0), Frame(10), Frame(20), Frame(30), Frame(40)} |-> calculateHistogram(f)]

\* detectPage(imageData, options) at wall clock time t
detectPage(scene, t) ==
  IF scene.page = Null THEN Null
  ELSE Detection(scene.page.corners, scene.page.confidence, t)

\* analyzeFrameQuality(imageData)
analyzeFrameQuality(scene) == scene.quality

----------------------------------------------------------------------------
(* VideoFrameExtractor.extractPagesFromVideo *)

Calls == {1, 2}

\* the options that ScanService.processVideo passes
ServiceOptions(isProUser) ==
  [intervalSeconds |-> 3, minQualityScore |-> 10,
   maxFrames |-> IF isProUser THEN 100 ELSE 20]

Idle ==
  [pc |-> "idle", opts |-> Null, time |-> 0, frame |-> Null,
   detectedPages |-> <<>>, lastDetectedPage |-> Null,
   lastPageHistogram |-> Null, pageHistograms |-> <<>>,
   result |-> Null, sampledSharp |-> 0, sampledPages |-> 0, duplicateOf |-> 0]

\* Math.sqrt on the squares of whole numbers (the corner sets of the
\* scenes lie whole numbers of pixels apart), rounded down elsewhere
Sqrt(n) == CHOOSE r \in 0..400 : r * r <= n /\ n < (r + 1) * (r + 1)

\* isDifferentPage(page1, page2): the corners moved by more than
\* baseThreshold = 50 px on average; the branch on the confidences returns
\* false like the end of the function
isDifferentPage(page1, page2) ==
  LET movement(i) == Sqrt(DistSq(page1.corners[i], page2.corners[i]))
      totalMovement == movement(1) + movement(2) + movement(3) + movement(4)
  IN  \* avgMovement = totalMovement / 4 > baseThreshold
      totalMovement > 4 * 50

\* a captureFrame that numbers the frame by its sample, not by the index
\* it is given
captureFrame_BySample(scene, timestamp, index, t) ==
  [timestamp |-> timestamp, index |-> timestamp \div 3,
   qualityScore |-> analyzeFrameQuality(scene),
   pageDetection |-> detectPage(scene, t),
   histogram |-> FrameHistogram[scene.frame]]

\* captureFrame(timestamp, index, true, options, true) up to its await of
\* the encoded blob
captureFrame(scene, timestamp, index, t) ==
  [timestamp |-> timestamp, index |-> index,
   qualityScore |-> analyzeFrameQuality(scene),
   pageDetection |-> detectPage(scene, t),
   histogram |-> FrameHistogram[scene.frame]]

\* a check against the page captured last only
DuplicatesOf_LastOnly(histogram, pageHistograms) ==
  {i \in {Len(pageHistograms)} \ {0} :
     RatLess(compareHistograms(histogram, pageHistograms[i]), Rat(2, 10))}

\* the pages captured so far that the frame is a duplicate of: histDistance
\* < 0.2; the loop stops at the first of them
DuplicatesOf(histogram, pageHistograms) ==
  {i \in 1..Len(pageHistograms) :
     RatLess(compareHistograms(histogram, pageHistograms[i]), Rat(2, 10))}

\* the body of the scan loop after captureFrame, on closure c: the capture
\* decision, the pages kept and the skip added to the loop variable
Decide(c, frame) ==
  LET time == c.time
      eligible ==
        /\ frame.pageDetection # Null
        /\ frame.qualityScore # 0
        /\ frame.qualityScore >= c.opts.minQualityScore
      shouldCapture ==
        IF c.lastDetectedPage = Null THEN TRUE
        ELSE LET isDifferent == isDifferentPage(c.lastDetectedPage, frame.pageDetection)
             IN  IF c.lastPageHistogram # Null
                 THEN LET histogramDistance ==
                            compareHistograms(frame.histogram, c.lastPageHistogram)
                      IN  IF RatLess(Rat(3, 10), histogramDistance) THEN TRUE
                          ELSE IF isDifferent /\ RatLess(Rat(1, 10), histogramDistance)
                               THEN TRUE
                               ELSE FALSE
                 ELSE isDifferent
      notTooSoon ==
        \/ Len(c.detectedPages) = 0
        \/ time - Last(c.detectedPages).timestamp > 10
      duplicates == DuplicatesOf(frame.histogram, c.pageHistograms)
      isDuplicate == duplicates # {}
  IN  IF eligible /\ shouldCapture /\ notTooSoon
      THEN IF ~isDuplicate
           THEN [c EXCEPT !.detectedPages = Append(@, frame),
                          !.lastDetectedPage = frame.pageDetection,
                          !.lastPageHistogram = frame.histogram,
                          !.pageHistograms = Append(@, frame.histogram),
                          !.time = time + 15]
           ELSE [c EXCEPT !.time = time + 3,
                          \* `Duplicate of page ${i + 1} detected`
                          !.duplicateOf = CHOOSE i \in duplicates :
                                            \A k \in duplicates : i <= k]
      ELSE c

\* onProgress((time / duration) * 100) as wrapped by processVideo:
\* 10 + progress * 0.3
ExtractionProgress(time, duration) == Rat(10 * duration + 30 * time, duration)

\* extractPagesFromVideo(videoFile, options, onProgress), call h: the
\* closure is created, the source is set and the listener is registered;
\* the element then dispatches 'loadedmetadata' to all its listeners
extractPagesFromVideo(h, opts, duration) ==
  /\ ext[h].pc = "idle"
  /\ ext' = [ext EXCEPT ![h] = [Idle EXCEPT !.pc = "registered", !.opts = opts]]
  /\ video' = [src |-> h, duration |-> duration, currentTime |-> 0]
  /\ listeners' = Append(listeners, h)
  /\ pending' = Append(listeners, h)

\* the loop head of the scan of call h on closure c: seek, or leave the
\* loop and resolve
LoopHead(h, c, leave) ==
  IF ~leave /\ c.time < video.duration
  THEN /\ ext' = [ext EXCEPT ![h] = [c EXCEPT !.pc = "seeking"]]
       /\ video' = [video EXCEPT !.currentTime = c.time]
  ELSE /\ ext' = [ext EXCEPT ![h] =
                    [c EXCEPT !.pc = "done",
                              !.result = IF c.result = Null
                                         THEN [pages |-> c.detectedPages]
                                         ELSE c.result]]
       /\ video' = video

\* the 'loadedmetadata' listener of call h runs up to its first await
OnLoadedMetadata(h) ==
  /\ pending # <<>> /\ Head(pending) = h
  /\ pending' = Tail(pending)
  /\ tracker' = reset(tracker)
  /\ call' = Call("reset", Null, Null, Void)
  /\ LoopHead(h, [ext[h] EXCEPT !.time = 0], FALSE)
  /\ UNCHANGED <<limitVars, lib, now, nOps, canvas, listeners, svc, progress, multi>>

\* the seek of call h completed: captureFrame draws the video on the
\* canvas and analyses it; decoding the frame takes one clock tick
Seeked(h, scenes) ==
  /\ ext[h].pc = "seeking"
  /\ \E scene \in scenes :
       LET c == ext[h]
       IN  /\ canvas' = scene.frame
           /\ ext' = [ext EXCEPT ![h] =
                        [c EXCEPT !.pc = "encoding",
                                  !.frame = captureFrame(scene, c.time,
                                                         Len(c.detectedPages), now + TickMs),
                                  !.sampledSharp =
                                    IF scene.quality >= c.opts.minQualityScore
                                    THEN @ + 1 ELSE @,
                                  !.sampledPages =
                                    IF scene.page # Null THEN @ + 1 ELSE @]]
  /\ now' = now + TickMs
  /\ UNCHANGED <<limitVars, lib, tracker, call, nOps, video, listeners, pending, svc, progress, multi>>

OnSeeked(h) == Seeked(h, Scenes)

\* the blob of call h is encoded: the rest of the iteration and the head
\* of the next one
OnBlob(h) ==
  /\ ext[h].pc = "encoding"
  /\ LET frame == ext[h].frame
         imageData == canvas
         c1 == Decide([ext[h] EXCEPT !.frame = Null], frame)
     IN  /\ tracker' = addDetection(tracker, frame.pageDetection, imageData, now)
         /\ call' = Call("addDetection", frame.pageDetection, imageData, Void)
         /\ progress' = ExtractionProgress(c1.time, video.duration)
         /\ LoopHead(h, [c1 EXCEPT !.time = @ + c1.opts.intervalSeconds],
                     Len(c1.detectedPages) >= c1.opts.maxFrames)
  /\ UNCHANGED <<limitVars, lib, now, nOps, canvas, listeners, pending, svc, multi>>

----------------------------------------------------------------------------
(* VideoFrameExtractorMulti.extractPagesWithMultiFrame *)

\* what a caller passes: the sampling interval, the frames per page and the
\* video's duration; minQualityScore and captureWindow at their defaults
MultiConfigs ==
  { [intervalSeconds |-> 10, minQualityScore |-> 10, framesPerPage |-> 1,
     captureWindow |-> 20, duration |-> MaxMultiDuration],
    [intervalSeconds |-> 5, minQualityScore |-> 10, framesPerPage |-> 4,
     captureWindow |-> 20, duration |-> 50] }

MultiScenes == {SceneFlip, ScenePageA, ScenePageB, SceneSkewed, SceneBlurred}

MultiIdle ==
  [pc |-> "idle", opts |-> Null, time |-> 0,
   pageCandidates |-> <<>>, currentPageCandidate |-> Null, result |-> Null]

\* createPageCandidate(time, detection, imageData, qualityScore, histogram)
createPageCandidate(time, detection, imageData, qualityScore, histogram) ==
  [frames |-> <<[timestamp |-> time, index |-> 0, qualityScore |-> qualityScore,
                 pageDetection |-> detection, histogram |-> histogram]>>,
   imageDataArray |-> <<imageData>>,
   startTime |-> time,
   endTime |-> time,
   avgHistogram |-> histogram]

\* (val * (n - 1) + histogram[i]) / n for every bin i
AverageHistogram(avg, histogram, n) ==
  LET bins == DOMAIN avg.nz \cup DOMAIN histogram.nz
  IN  HistNorm([nz |-> [b \in bins |->
                          BinNum(avg, b) * (n - 1) * histogram.den
                            + BinNum(histogram, b) * avg.den],
                den |-> avg.den * histogram.den * n])

\* addFrameToCandidate(candidate, time, detection, imageData, qualityScore, histogram)
addFrameToCandidate(candidate, time, detection, imageData, qualityScore, histogram) ==
  LET frames == Append(candidate.frames,
                       [timestamp |-> time, index |-> Len(candidate.frames),
                        qualityScore |-> qualityScore, pageDetection |-> detection,
                        histogram |-> histogram])
  IN  [frames |-> frames,
       imageDataArray |-> Append(candidate.imageDataArray, imageData),
       startTime |-> candidate.startTime,
       endTime |-> time,
       avgHistogram |-> AverageHistogram(candidate.avgHistogram, histogram, Len(frames))]

\* an acceptance test that ignores the confidence
Accepted_AnyConfidence(detection, qualityScore, opts) ==
  /\ detection # Null
  /\ qualityScore >= opts.minQualityScore

\* detection && detection.confidence > 0.5, and qualityScore >= minQualityScore
Accepted(detection, qualityScore, opts) ==
  /\ detection # Null
  /\ detection.confidence > 50
  /\ qualityScore >= opts.minQualityScore

\* a test of the same page that ignores the capture window
SamePage_AnyTime(histogram, current, time, opts) ==
  RatLess(compareHistograms(histogram, current.avgHistogram), Rat(2, 10))

\* histDistance < 0.2 && time - currentPageCandidate.startTime < captureWindow
SamePage(histogram, current, time, opts) ==
  /\ RatLess(compareHistograms(histogram, current.avgHistogram), Rat(2, 10))
  /\ time - current.startTime < opts.captureWindow

\* a loop body whose completed page takes the step of the loop back
MultiBody_SkipBack(m, scene, t) ==
  LET time == m.time
      detection == detectPage(scene, t)
      qualityScore == analyzeFrameQuality(scene)
      histogram == FrameHistogram[scene.frame]
      current == m.currentPageCandidate
  IN  IF Accepted(detection, qualityScore, m.opts)
      THEN IF current = Null
           THEN [m EXCEPT !.currentPageCandidate =
                   createPageCandidate(time, detection, scene.frame, qualityScore, histogram)]
           ELSE IF SamePage(histogram, current, time, m.opts)
                THEN LET added == addFrameToCandidate(current, time, detection, scene.frame,
                                                      qualityScore, histogram)
                     IN  IF Len(added.frames) >= m.opts.framesPerPage
                         THEN [m EXCEPT !.pageCandidates = Append(@, added),
                                        !.currentPageCandidate = Null,
                                        !.time = time - m.opts.intervalSeconds]
                         ELSE [m EXCEPT !.currentPageCandidate = added]
                ELSE [m EXCEPT !.pageCandidates =
                                 IF Len(current.frames) >= 2 THEN Append(@, current) ELSE @,
                               !.currentPageCandidate =
                                 createPageCandidate(time, detection, scene.frame,
                                                     qualityScore, histogram)]
      ELSE m

\* the body of the scan loop on closure m and the frame that shows scene:
\* the closure after it, the loop variable included
MultiBody(m, scene, t) ==
  LET time == m.time
      detection == detectPage(scene, t)
      qualityScore == analyzeFrameQuality(scene)
      histogram == FrameHistogram[scene.frame]
      current == m.currentPageCandidate
  IN  IF Accepted(detection, qualityScore, m.opts)
      THEN IF current = Null
           THEN [m EXCEPT !.currentPageCandidate =
                   createPageCandidate(time, detection, scene.frame, qualityScore, histogram)]
           ELSE IF SamePage(histogram, current, time, m.opts)
                THEN LET added == addFrameToCandidate(current, time, detection, scene.frame,
                                                      qualityScore, histogram)
                     IN  IF Len(added.frames) >= m.opts.framesPerPage
                         THEN [m EXCEPT !.pageCandidates = Append(@, added),
                                        !.currentPageCandidate = Null,
                                        !.time = time + 10]
                         ELSE [m EXCEPT !.currentPageCandidate = added]
                ELSE [m EXCEPT !.pageCandidates =
                                 IF Len(current.frames) >= 2 THEN Append(@, current) ELSE @,
                               !.currentPageCandidate =
                                 createPageCandidate(time, detection, scene.frame,
                                                     qualityScore, histogram)]
      ELSE m

\* if (pageCandidates.length >= 4) break
BudgetReached_Five(m) == Len(m.pageCandidates) >= 5

BudgetReached(m) == Len(m.pageCandidates) >= 4

\* the frame group that processPageCandidates makes of candidate i
FrameGroup(candidate, i) ==
  [pageNumber |-> i,
   frames |-> candidate.imageDataArray,
   qualityScores |-> [k \in 1..Len(candidate.frames) |-> candidate.frames[k].qualityScore],
   timestamps |-> [k \in 1..Len(candidate.frames) |-> candidate.frames[k].timestamp]]

\* a merger that does not look at the number of frames
mergeFrames_Unchecked(frameGroup) ==
  IF Len(frameGroup.frames) = 1 THEN frameGroup.frames[1]
  ELSE [width |-> 0, height |-> 0, cellsOf |-> frameGroup.frames]

\* mergeFrames(frameGroup): the only frame, or an image of the size of the
\* first frame whose cells are taken from the frames
mergeFrames(frameGroup) ==
  IF Len(frameGroup.frames) = 0 THEN Throws("No frames to merge")
  ELSE IF Len(frameGroup.frames) = 1 THEN frameGroup.frames[1]
  ELSE [width |-> frameGroup.frames[1].width,
        height |-> frameGroup.frames[1].height,
        cellsOf |-> frameGroup.frames]

\* processPageCandidates: one final frame per candidate, or the error of
\* the first merge that throws
processPageCandidates(candidates) ==
  LET merged(i) == mergeFrames(FrameGroup(candidates[i], i - 1))
      thrown == {i \in 1..Len(candidates) : "throws" \in DOMAIN merged(i)}
  IN  IF thrown # {}
      THEN merged(CHOOSE i \in thrown : \A k \in thrown : i <= k)
      ELSE [pages |->
              [i \in 1..Len(candidates) |->
                 [timestamp |-> candidates[i].startTime,
                  index |-> i - 1,
                  merged |-> Len(candidates[i].frames),
                  image |-> merged(i),
                  histogram |-> candidates[i].avgHistogram]]]

\* the flush without its test of the number of frames
MultiFinish_FlushAny(m) ==
  LET current == m.currentPageCandidate
      pageCandidates ==
        IF current # Null THEN Append(m.pageCandidates, current) ELSE m.pageCandidates
  IN  [m EXCEPT !.pc = "done",
                !.pageCandidates = pageCandidates,
                !.result = processPageCandidates(pageCandidates)]

\* after the loop: the open candidate is flushed, the candidates are
\* processed and the promise is resolved, or rejected with what was thrown
MultiFinish(m) ==
  LET current == m.currentPageCandidate
      pageCandidates ==
        IF current # Null /\ Len(current.frames) >= 2
        THEN Append(m.pageCandidates, current) ELSE m.pageCandidates
  IN  [m EXCEPT !.pc = "done",
                !.pageCandidates = pageCandidates,
                !.result = processPageCandidates(pageCandidates)]

\* extractPagesWithMultiFrame(videoFile, options, onProgress): the source
\* is set and the listener is registered
extractPagesWithMultiFrame ==
  /\ multi.pc = "idle"
  /\ \E opts \in MultiConfigs :
       multi' = [MultiIdle EXCEPT !.pc = "registered", !.opts = opts]
  /\ UNCHANGED <<limitVars, lib, trackerVars, pagesVars, progress>>

\* the 'loadedmetadata' listener runs up to its first await
MultiLoadedMetadata ==
  /\ multi.pc = "registered"
  /\ tracker' = reset(tracker)
  /\ call' = Call("reset", Null, Null, Void)
  /\ multi' = IF 0 < multi.opts.duration
              THEN [multi EXCEPT !.pc = "seeking", !.time = 0]
              ELSE MultiFinish(multi)
  /\ UNCHANGED <<limitVars, lib, now, nOps, pagesVars, progress>>

\* the seek completed: one iteration of the loop, up to the next seek or
\* through the end of the scan; decoding the frame takes one clock tick
MultiSeeked ==
  /\ multi.pc = "seeking"
  /\ \E scene \in MultiScenes :
       \E m1 \in {MultiBody(multi, scene, now + TickMs)} :
       \E m2 \in {[m1 EXCEPT !.time = @ + m1.opts.intervalSeconds]} :
           /\ progress' = Rat(100 * m1.time, m1.opts.duration)
           /\ multi' = IF BudgetReached(m1) \/ ~(m2.time < m2.opts.duration)
                       THEN MultiFinish(m2)
                       ELSE m2
  /\ now' = now + TickMs
  /\ UNCHANGED <<limitVars, lib, tracker, call, nOps, pagesVars>>

----------------------------------------------------------------------------
(* The monthly limit: check_scan_limit, increment_usage and the calls of   *)
(* processVideo that run at the same time                                  *)

\* public.users: the subscription_status of each user
Users == [u1 |-> "free", u2 |-> "pro"]

Clients == 1..MaxClients

ClientIdle == [pc |-> "idle", userId |-> "u1", pageCount |-> 0, result |-> Null]

InitLimit ==
  /\ usage = [u \in DOMAIN Users |-> Null]
  /\ clients = [c \in Clients |-> ClientIdle]

\* check_scan_limit(p_user_id): true for a pro user; for a free user the
\* comparison of the month's scan_count with 5, which is NULL when the user
\* has no row for the month
check_scan_limit(p_user_id) ==
  IF Users[p_user_id] = "pro" THEN [data |-> TRUE]
  ELSE IF usage[p_user_id] = Null THEN Null
  ELSE [data |-> usage[p_user_id].scan_count < 5]

\* checkScanLimit(userId): the answer of the rpc, and true when it is null
checkScanLimit(userId) ==
  LET response == check_scan_limit(userId)
  IN  IF response = Null THEN TRUE ELSE response.data

\* increment_usage(p_user_id, p_page_count): the row is inserted with a
\* scan_count of 1, or on conflict the counts of the row are raised
increment_usage(p_user_id, p_page_count) ==
  [usage EXCEPT ![p_user_id] =
     IF @ = Null
     THEN [scan_count |-> 1, page_count |-> p_page_count]
     ELSE [scan_count |-> @.scan_count + 1, page_count |-> @.page_count + p_page_count]]

\* the scans of a user that are counted or under way
ScansOf(userId) ==
  (IF usage[userId] = Null THEN 0 ELSE usage[userId].scan_count)
    + Cardinality({c \in Clients : clients[c].pc # "idle" /\ clients[c].userId = userId})

\* processVideo up to the answer of checkScanLimit: the call goes on, or
\* throws 'Monthly scan limit reached. Please upgrade to Pro.'
ProcessVideoCheck(c) ==
  /\ clients[c].pc = "idle"
  /\ \E userId \in DOMAIN Users :
       /\ ScansOf(userId) < MaxScans
       /\ clients' = [clients EXCEPT ![c] =
            IF checkScanLimit(userId)
            THEN [pc |-> "processing", userId |-> userId, pageCount |-> 0, result |-> Null]
            ELSE [pc |-> "idle", userId |-> userId, pageCount |-> 0,
                  result |-> Throws("Monthly scan limit reached. Please upgrade to Pro.")]]
  /\ UNCHANGED <<usage, trackerVars, pagesVars, progress, multi, lib>>

\* processVideo from the answer of checkScanLimit to the update of the scan
\* record: the frames are extracted, uploaded and made a PDF of pageCount
\* pages, or one of the steps throws
ProcessVideoWork(c) ==
  /\ clients[c].pc = "processing"
  /\ \/ \E pageCount \in 1..2 :
          clients' = [clients EXCEPT ![c].pc = "updating", ![c].pageCount = pageCount]
     \/ clients' = [clients EXCEPT ![c].pc = "idle", ![c].result = Throws("Error")]
  /\ UNCHANGED <<usage, trackerVars, pagesVars, progress, multi, lib>>

\* updateUsageTracking(userId, pageCount), and the return of processVideo
updateUsageTracking(c) ==
  /\ clients[c].pc = "updating"
  /\ usage' = increment_usage(clients[c].userId, clients[c].pageCount)
  /\ clients' = [clients EXCEPT ![c].pc = "idle",
                                ![c].result = [pageCount |-> clients[c].pageCount]]
  /\ UNCHANGED <<trackerVars, pagesVars, progress, multi, lib>>


----------------------------------------------------------------------------
(* ScanService.processVideo with page detection enabled *)

Durations == {MaxDuration - 8, MaxDuration}

\* up to the await of extractPagesFromVideo
\* processVideo is called when the service is idle or has returned from
\* its previous call; h names the call of extractPagesFromVideo it makes
processVideo(h, users, durations) ==
  /\ svc.pc \in {"idle", "done"}
  /\ \E isProUser \in users, duration \in durations :
       /\ svc' = [svc EXCEPT !.pc = "extracting", !.isProUser = isProUser, !.call = h]
       /\ extractPagesFromVideo(h, ServiceOptions(isProUser), duration)
  /\ progress' = Rat(10, 1)
  /\ UNCHANGED <<limitVars, lib, trackerVars, canvas, multi>>

SvcStart == processVideo(1, BOOLEAN, Durations)

\* frames.slice(0, maxPages)
Slice(s, n) == SubSeq(s, 1, Min(n, Len(s)))

\* the extraction resolved: the pages are limited and the upload starts
SvcExtracted ==
  /\ svc.pc = "extracting"
  /\ ext[svc.call].result # Null
  /\ LET frames == ext[svc.call].result.pages
         maxPages == IF svc.isProUser THEN Len(frames) ELSE Min(Len(frames), 20)
     IN  svc' = [svc EXCEPT !.pc = "uploading", !.frames = frames,
                            !.processedFrames = Slice(frames, maxPages),
                            !.uploaded = 0]
  /\ progress' = Rat(40, 1)
  /\ UNCHANGED <<limitVars, lib, trackerVars, video, canvas, listeners, pending, ext, multi>>

\* uploadFrames: one frame is stored and recorded
SvcUploadFrame ==
  /\ svc.pc = "uploading"
  /\ svc.uploaded < Len(svc.processedFrames)
  /\ svc' = [svc EXCEPT !.uploaded = @ + 1]
  /\ progress' = Rat(40 * Len(svc.processedFrames) + (svc.uploaded + 1) * 30,
                     Len(svc.processedFrames))
  /\ UNCHANGED <<limitVars, lib, trackerVars, video, canvas, listeners, pending, ext, multi>>

\* all frames are uploaded: the PDF is generated
SvcGeneratePdf ==
  /\ svc.pc = "uploading"
  /\ svc.uploaded = Len(svc.processedFrames)
  /\ svc' = [svc EXCEPT !.pc = "pdf"]
  /\ progress' = Rat(70, 1)
  /\ UNCHANGED <<limitVars, lib, trackerVars, video, canvas, listeners, pending, ext, multi>>

\* the PDF is generated: it is uploaded
SvcUploadPdf ==
  /\ svc.pc = "pdf"
  /\ svc' = [svc EXCEPT !.pc = "storing"]
  /\ progress' = Rat(90, 1)
  /\ UNCHANGED <<limitVars, lib, trackerVars, video, canvas, listeners, pending, ext, multi>>

\* the scan record and the usage are updated; processVideo returns
SvcComplete ==
  /\ svc.pc = "storing"
  /\ svc' = [svc EXCEPT !.pc = "done", !.pageCount = Len(svc.processedFrames)]
  /\ progress' = Rat(100, 1)
  /\ UNCHANGED <<limitVars, lib, trackerVars, video, canvas, listeners, pending, ext, multi>>

InitPages ==
  /\ video = [src |-> Null, duration |-> 0, currentTime |-> 0]
  /\ canvas = Null
  /\ listeners = <<>>
  /\ pending = <<>>
  /\ ext = [h \in Calls |-> Idle]
  /\ svc = [pc |-> "idle", call |-> 1, isProUser |-> FALSE, frames |-> <<>>,
            processedFrames |-> <<>>, uploaded |-> 0, pageCount |-> 0]
  /\ progress = Null
  /\ multi = MultiIdle
  /\ lib = [op |-> "none", args |-> <<>>, result |-> Void]

Init ==
  /\ tracker = NewTracker
  /\ now = 0
  /\ call = Call("new", Null, Null, Void)
  /\ nOps = 0
  /\ InitPages
  /\ InitLimit

Next ==
  \/ SvcStart
  \/ \E h \in Calls : OnLoadedMetadata(h)
  \/ \E h \in Calls : OnSeeked(h)
  \/ \E h \in Calls : OnBlob(h)
  \/ SvcExtracted
  \/ SvcUploadFrame
  \/ SvcGeneratePdf
  \/ SvcUploadPdf
  \/ SvcComplete

Spec == Init /\ [][Next]_vars

\* The scan of a longer video that shows two pages and the flips between
\* them, by a free user.
PageScenes == {SceneFlip, ScenePageA, ScenePageB}

LongStart == processVideo(1, {FALSE}, {MaxLongDuration})

LongSeeked == Seeked(1, PageScenes)

NextLong ==
  \/ LongStart
  \/ OnLoadedMetadata(1)
  \/ LongSeeked
  \/ OnBlob(1)
  \/ SvcExtracted

SpecLong == Init /\ [][NextLong]_vars

\* One ScanService, and so one VideoFrameExtractor, scans two short videos
\* one after the other.
ShortScenes == {SceneFlip, ScenePageA}

FirstVideo == processVideo(1, {FALSE}, {MaxShortDuration})

\* the next upload, after processVideo returned from the first one
SecondVideo ==
  /\ svc.call = 1 /\ svc.pc = "done"
  /\ processVideo(2, {FALSE}, {MaxShortDuration})

RepeatSeeked(h) == Seeked(h, ShortScenes)

NextRepeat ==
  \/ FirstVideo
  \/ SecondVideo
  \/ \E h \in Calls : OnLoadedMetadata(h)
  \/ \E h \in Calls : RepeatSeeked(h)
  \/ \E h \in Calls : OnBlob(h)
  \/ SvcExtracted
  \/ SvcUploadFrame
  \/ SvcGeneratePdf
  \/ SvcUploadPdf
  \/ SvcComplete

SpecRepeat == Init /\ [][NextRepeat]_vars

\* A client that calls extractPagesFromVideo itself, with a maxFrames of
\* its own, on the longer video.
CallExtractPages ==
  /\ \E maxFrames \in 0..MaxDirectFrames :
       extractPagesFromVideo(1, [intervalSeconds |-> 3, minQualityScore |-> 10,
                                 maxFrames |-> maxFrames],
                             MaxLongDuration)
  /\ UNCHANGED <<limitVars, lib, trackerVars, canvas, svc, progress, multi>>

NextDirect ==
  \/ CallExtractPages
  \/ OnLoadedMetadata(1)
  \/ LongSeeked
  \/ OnBlob(1)

SpecDirect == Init /\ [][NextDirect]_vars

\* Calls of the perspective correction on small images.
SmallImages ==
  { ImageOf([width |-> w, height |-> MaxImageSide - 1, lit |-> k]) :
      w \in {MaxImageSide - 1, MaxImageSide}, k \in {0, 2, 5, 7, MaxImageSide * MaxImageSide} }

\* the four corners of an image, in the order of a detection
ImageCorners(image) ==
  <<Pt(0, 0), Pt(image.width, 0), Pt(image.width, image.height), Pt(0, image.height)>>

\* corner sets a detection can carry on an image: its corners, its corner
\* pixels, a quadrilateral inside it, and quadrilaterals with coinciding or
\* collinear corners
CornerInputs(image) ==
  LET w == image.width
      h == image.height
  IN  { ImageCorners(image),
        <<Pt(0, 0), Pt(w - 1, 0), Pt(w - 1, h - 1), Pt(0, h - 1)>>,
        <<Pt(0, 0), Pt(w - 1, 0), Pt(w - 2, h - 1), Pt(0, h - 1)>>,
        <<Pt(0, 0), Pt(w - 1, 0), Pt(w - 1, 0), Pt(0, h - 1)>>,
        <<Pt(0, 0), Pt(w - 1, 0), Pt(w - 1, h - 1), Pt(w - 1, h - 1)>>,
        <<Pt(0, 0), Pt(1, 0), Pt(w - 1, 0), Pt(0, h - 1)>>,
        <<Pt(1, 1), Pt(1, 1), Pt(1, 1), Pt(1, 1)>> }

LibCall(op, args, result) == [op |-> op, args |-> args, result |-> result]

CallCorrection ==
  /\ lib.op = "none"
  /\ \E image \in SmallImages : \E corners \in CornerInputs(image) :
       lib' = LibCall("applyPerspectiveCorrection", <<image, corners>>,
                      applyPerspectiveCorrection(image, corners))
  /\ UNCHANGED <<limitVars, trackerVars, pagesVars, progress, multi>>

CallPageBlob ==
  /\ lib.op = "none"
  /\ \E image \in SmallImages : \E corners \in CornerInputs(image) :
       lib' = LibCall("PageBlob", <<image, corners>>, PageBlob(image, corners))
  /\ UNCHANGED <<limitVars, trackerVars, pagesVars, progress, multi>>

NextCorrection == CallCorrection \/ CallPageBlob

SpecCorrection == Init /\ [][NextCorrection]_vars

\* Page detection on the contours of one frame: every contour is a set of
\* pixels of the frame in the order of the rows, those of 4 pixels also
\* against it.
FramePixels == {Pt(px, py) : px \in 0..(FrameSide - 1), py \in 0..(FrameSide - 1)}

PixelKey(p) == p.y * FrameSide + p.x

RowOrder(pixels) ==
  [m \in 1..Cardinality(pixels) |->
     CHOOSE p \in pixels : Cardinality({q \in pixels : PixelKey(q) < PixelKey(p)}) = m - 1]

Reverse(s) == [m \in 1..Len(s) |-> s[Len(s) + 1 - m]]

Contours ==
  LET sets == {c \in SUBSET FramePixels :
                 Cardinality(c) >= 3 /\ Cardinality(c) <= MaxContourPoints}
  IN  {RowOrder(c) : c \in sets}
        \cup {Reverse(RowOrder(c)) : c \in {d \in sets : Cardinality(d) = 4}}

\* a square, a diamond, a triangle, a line, a pentagon and a hexagon
SampleContours ==
  {<<Pt(0, 0), Pt(1, 0), Pt(1, 1), Pt(0, 1)>>,
   <<Pt(1, 0), Pt(2, 1), Pt(1, 2), Pt(0, 1)>>,
   <<Pt(0, 0), Pt(2, 0), Pt(0, 2)>>,
   <<Pt(0, 0), Pt(1, 1), Pt(2, 2)>>,
   <<Pt(0, 0), Pt(2, 0), Pt(2, 1), Pt(1, 2), Pt(0, 2), Pt(1, 1)>>,
   <<Pt(1, 0), Pt(2, 1), Pt(2, 2), Pt(1, 2), Pt(0, 1), Pt(0, 0)>>}

ContourLists ==
  {<<>>} \cup {<<c>> : c \in Contours \cup SampleContours}
    \cup {<<c, d>> : c \in SampleContours, d \in SampleContours}

\* minArea, in percent: none and the default
MinAreas == {0, 20}

CallDetectPage ==
  /\ lib.op = "none"
  /\ \E contours \in ContourLists, minArea \in MinAreas :
       lib' = LibCall("detectPage", <<contours, FrameSide * FrameSide, minArea>>,
                      detectPageCorners(contours, FrameSide * FrameSide, minArea))
  /\ UNCHANGED <<limitVars, trackerVars, pagesVars, progress, multi>>

NextDetect == CallDetectPage

SpecDetect == Init /\ [][NextDetect]_vars

\* Comparison of histograms: some pixels in the darkest bins and the
\* brightest one, every other bin empty; the bins add up to 1 or to less.
SampleBins == {0, 1, HistBins - 1}

Histograms ==
  {HistNorm([nz |-> counts, den |-> den]) :
     <<counts, den>> \in
       {<<c, d>> \in [SampleBins -> 0..MaxBinCount] \X (1..(3 * MaxBinCount + 1)) :
          LET total == c[0] + c[1] + c[HistBins - 1]
          IN  d = Max(total, 1) \/ d = total + 1}}

CallCompareHistograms ==
  /\ lib.op = "none"
  /\ \E hist1 \in Histograms, hist2 \in Histograms :
       lib' = LibCall("compareHistograms", <<hist1, hist2>>,
                      compareHistograms(hist1, hist2))
  /\ UNCHANGED <<limitVars, trackerVars, pagesVars, progress, multi>>

NextHistogram == CallCompareHistograms

SpecHistogram == Init /\ [][NextHistogram]_vars

\* The multi-frame scan of one video.
NextMulti == extractPagesWithMultiFrame \/ MultiLoadedMetadata \/ MultiSeeked

SpecMulti == Init /\ [][NextMulti]_vars

\* the scan when the video element answers: 'loadedmetadata' is dispatched
\* for the source that was set, and every seek completes, so that the poll
\* of waitForSeek finds video.seeking false and the loop goes on
SpecMultiFair ==
  SpecMulti /\ WF_vars(MultiLoadedMetadata) /\ WF_vars(MultiSeeked)

\* Calls of processVideo that run at the same time, for a free and a pro user.
NextLimit ==
  \/ \E c \in Clients : ProcessVideoCheck(c)
  \/ \E c \in Clients : ProcessVideoWork(c)
  \/ \E c \in Clients : updateUsageTracking(c)

SpecLimit == Init /\ [][NextLimit]_vars

\* The multi-frame scan next to a client that merges a group of frames
\* itself, before any scan.
MergeFrameInputs == {Frame(0), Frame(10), Frame(20), Frame(30), Frame(40)}

RECURSIVE FrameSeqs(_)
FrameSeqs(n) ==
  IF n = 0 THEN {<<>>}
  ELSE FrameSeqs(n - 1)
         \cup {Append(s, f) : s \in {t \in FrameSeqs(n - 1) : Len(t) = n - 1},
                              f \in MergeFrameInputs}

CallMergeFrames ==
  /\ lib.op = "none"
  /\ multi.pc = "idle"
  /\ \E frames \in FrameSeqs(MaxGroupFrames) :
       LET frameGroup == [pageNumber |-> 0, frames |-> frames,
                          qualityScores |-> [k \in 1..Len(frames) |-> 50],
                          timestamps |-> [k \in 1..Len(frames) |-> k]]
       IN  lib' = LibCall("mergeFrames", <<frameGroup>>, mergeFrames(frameGroup))
  /\ UNCHANGED <<limitVars, trackerVars, pagesVars, progress, multi>>

ScanMultiFrame == lib.op = "none" /\ NextMulti

NextMerge == ScanMultiFrame \/ CallMergeFrames

SpecMerge == Init /\ [][NextMerge]_vars

----------------------------------------------------------------------------
(* The merger with metrics: regions, alignment, seams *)

RatTimes(p, q) == Rat(p.num * q.num, p.den * q.den)
RatMinus(p, q) == Rat(p.num * q.den - q.num * p.den, p.den * q.den)

RECURSIVE RatSum(_)
RatSum(s) == IF Len(s) = 0 THEN Rat(0, 1) ELSE RatAdd(s[1], RatSum(Tail(s)))

\* Math.exp(-n / d) in parts of ExpScale, by halving the exponent down to at
\* most 1/2 and the series of the exponential up to the fifth power
ExpScale == 10000

RECURSIVE ExpNeg(_, _)
ExpNeg(n, d) ==
  IF 2 * n > d
  THEN CHOOSE result \in {(h * h) \div ExpScale : h \in {ExpNeg(n, 2 * d)}} : TRUE
  ELSE LET z == (ExpScale * n) \div d
           z2 == (z * z) \div (2 * ExpScale)
           z3 == (z2 * z) \div (3 * ExpScale)
           z4 == (z3 * z) \div (4 * ExpScale)
           z5 == (z4 * z) \div (5 * ExpScale)
       IN  ExpScale - z + z2 - z3 + z4 - z5

\* 1.0 + 0.2 * Math.exp(-((col - gridSize/2) / (gridSize/4))^2
\*                      - ((row - gridSize/2) / (gridSize/4))^2), in parts
\* of ExpScale
CenterWeight(col, row, gridSize) ==
  LET n == (4 * col - 2 * gridSize) * (4 * col - 2 * gridSize)
             + (4 * row - 2 * gridSize) * (4 * row - 2 * gridSize)
  IN  ExpScale + (ExpNeg(n, gridSize * gridSize) \div 5)

\* data[idx] * 0.299 + data[idx + 1] * 0.587 + data[idx + 2] * 0.114, times 1000
Gray1000(imageData, x, y) ==
  LET idx == (y * imageData.width + x) * 4
  IN  299 * imageData.data[idx] + 587 * imageData.data[idx + 1]
        + 114 * imageData.data[idx + 2]

\* the Laplacian kernel at (x, y)
Laplacian(imageData, x, y) ==
  Rat(Gray1000(imageData, x, y - 1) + Gray1000(imageData, x, y + 1)
        + Gray1000(imageData, x - 1, y) + Gray1000(imageData, x + 1, y)
        - 4 * Gray1000(imageData, x, y), 1000)

\* the quality of one cell, in parts of ExpScale and cut off there: the
\* variance of the Laplacian over the inner pixels of the cell, weighted
\* towards the centre; 0 without inner pixels
CellQuality(imageData, gridSize, row, col) ==
  LET width == imageData.width
      height == imageData.height
      cellWidth == width \div gridSize
      cellHeight == height \div gridSize
      startX == col * cellWidth
      startY == row * cellHeight
      endX == Min(startX + cellWidth, width - 1)
      endY == Min(startY + cellHeight, height - 1)
      \* y = startY + 1 .. endY - 2, x = startX + 1 .. endX - 2
      nx == Max(endX - 1 - (startX + 1), 0)
      ny == Max(endY - 1 - (startY + 1), 0)
      count == nx * ny
      laplacians ==
        [k \in 1..count |->
           Laplacian(imageData, startX + 1 + ((k - 1) % nx), startY + 1 + ((k - 1) \div nx))]
  IN  IF count > 0
      THEN CHOOSE result \in
             {LET sum == RatSum(ls)
                  sumSq == RatSum([k \in 1..count |-> RatTimes(ls[k], ls[k])])
                  mean == RatTimes(sum, Rat(1, count))
                  variance == RatMinus(RatTimes(sumSq, Rat(1, count)), RatTimes(mean, mean))
              IN  (variance.num * CenterWeight(col, row, gridSize)) \div variance.den
              : ls \in {laplacians}} : TRUE
      ELSE 0

\* analyzeRegionQuality(imageData, gridSize): the grid of the qualities
analyzeRegionQuality(imageData, gridSize) ==
  [row \in 0..(gridSize - 1) |->
     [col \in 0..(gridSize - 1) |-> CellQuality(imageData, gridSize, row, col)]]

\* a division by an integer that may be negative
RatOver(n, d) == IF d < 0 THEN Rat(-n, -d) ELSE Rat(n, d)

\* a set of corners of a frame: its points; a frame without a set has Null
CornersOf(points) == [points |-> points]

\* !corners || corners.length !== 4, negated; the variant takes any set
HasFourCorners_Any(corners) == corners # Null

HasFourCorners(corners) == corners # Null /\ Len(corners.points) = 4

\* calculateAffineTransform(srcCorners, dstCorners): the six numbers of the
\* map of the first three source corners on the first three destination
\* corners, Null when |det| < 0.001; reading a corner that is not there
\* raises a TypeError
calculateAffineTransform(srcCorners, dstCorners) ==
  IF Len(srcCorners) < 3 \/ Len(dstCorners) < 3 THEN Throws("TypeError")
  ELSE
  LET x1 == srcCorners[1].x   y1 == srcCorners[1].y
      x2 == srcCorners[2].x   y2 == srcCorners[2].y
      x3 == srcCorners[3].x   y3 == srcCorners[3].y
      u1 == dstCorners[1].x   v1 == dstCorners[1].y
      u2 == dstCorners[2].x   v2 == dstCorners[2].y
      u3 == dstCorners[3].x   v3 == dstCorners[3].y
      det == x1 * (y2 - y3) + x2 * (y3 - y1) + x3 * (y1 - y2)
  IN  IF 1000 * Abs(det) < 1 THEN Null
      ELSE LET a == RatOver((u1 - u3) * (y2 - y3) - (u2 - u3) * (y1 - y3), det)
               b == RatOver((u2 - u3) * (x1 - x3) - (u1 - u3) * (x2 - x3), det)
               c == RatMinus(RatMinus(Rat(u1, 1), RatTimes(a, Rat(x1, 1))),
                             RatTimes(b, Rat(y1, 1)))
               d == RatOver((v1 - v3) * (y2 - y3) - (v2 - v3) * (y1 - y3), det)
               e == RatOver((v2 - v3) * (x1 - x3) - (v1 - v3) * (x2 - x3), det)
               f == RatMinus(RatMinus(Rat(v1, 1), RatTimes(d, Rat(x1, 1))),
                             RatTimes(e, Rat(y1, 1)))
           IN  [a |-> a, b |-> b, c |-> c, d |-> d, e |-> e, f |-> f]

\* applyAffineTransform(imageData, transform): every pixel of the output is
\* interpolated at its place under the inverse map, white outside the
\* image; the image itself when the map has no inverse
applyAffineTransform(imageData, transform) ==
  LET a == transform.a  b == transform.b  c == transform.c
      d == transform.d  e == transform.e  f == transform.f
      width == imageData.width
      height == imageData.height
      det == RatMinus(RatTimes(a, e), RatTimes(b, d))
  IN  IF 1000 * Abs(det.num) < det.den THEN imageData
      ELSE
      LET over(p) == RatOver(p.num * det.den, p.den * det.num)
          ia == over(e)
          ib == over(RatMinus(Rat(0, 1), b))
          ic == over(RatMinus(RatTimes(b, f), RatTimes(c, e)))
          id == over(RatMinus(Rat(0, 1), d))
          ie == over(a)
          if_ == over(RatMinus(RatTimes(c, d), RatTimes(a, f)))
          srcX(x, y) == RatAdd(RatAdd(RatTimes(ia, Rat(x, 1)), RatTimes(ib, Rat(y, 1))), ic)
          srcY(x, y) == RatAdd(RatAdd(RatTimes(id, Rat(x, 1)), RatTimes(ie, Rat(y, 1))), if_)
          pixel(x, y) ==
            CHOOSE result \in
              {IF /\ FloorOf(s[1]) >= 0 /\ CeilOf(s[1]) < width
                  /\ FloorOf(s[2]) >= 0 /\ CeilOf(s[2]) < height
               THEN [ch \in 0..3 |-> Interpolate(imageData, s[1], s[2], ch)]
               ELSE [ch \in 0..3 |-> 255]
               : s \in {<<srcX(x, y), srcY(x, y)>>}} : TRUE
          pixels == [k \in 0..(width * height - 1) |-> pixel(k % width, k \div width)]
      IN  CHOOSE result \in
            {Image(width, height,
                   [i \in 0..(width * height * 4 - 1) |-> ps[i \div 4][i % 4]])
             : ps \in {pixels}} : TRUE

\* the places of a list of frames that hold what a call raised
Raised(frames) == {i \in 1..Len(frames) : "throws" \in DOMAIN frames[i]}

\* alignFramesToReference(frames, cornerSets, referenceIdx): the frames, the
\* ones with four corners moved on the corners of the reference frame; a
\* call that raises leaves the list of what it raised
alignFramesToReference(frames, cornerSets, referenceIdx) ==
  IF Len(frames) <= 1 \/ Len(cornerSets) # Len(frames) THEN frames
  ELSE
  LET refCorners == IF referenceIdx + 1 \in 1..Len(cornerSets)
                    THEN cornerSets[referenceIdx + 1] ELSE Null
  IN  IF ~HasFourCorners(refCorners) THEN frames
      ELSE
      LET aligned(i) ==
            IF i = referenceIdx + 1 THEN frames[i]
            ELSE IF ~HasFourCorners(cornerSets[i]) THEN frames[i]
            ELSE CHOOSE result \in
                   {IF transform = Null THEN frames[i]
                    ELSE IF "throws" \in DOMAIN transform THEN transform
                    ELSE applyAffineTransform(frames[i], transform)
                    : transform \in
                        {calculateAffineTransform(cornerSets[i].points, refCorners.points)}}
                   : TRUE
          alignedFrames == [i \in 1..Len(frames) |-> aligned(i)]
      IN  CHOOSE result \in
            {IF Raised(fs) # {}
             THEN <<fs[CHOOSE i \in Raised(fs) : \A k \in Raised(fs) : i <= k]>>
             ELSE fs
             : fs \in {alignedFrames}} : TRUE

\* if (!gridSize || gridSize === 8): the grid size by the number of pixels
GridSizeFor(gridSize, width, height) ==
  IF gridSize = 0 \/ gridSize = 8
  THEN IF width * height < 1000000 THEN 6
       ELSE IF width * height < 4000000 THEN 8
       ELSE 10
  ELSE gridSize

\* the frame with the best quality for a cell: the first of the best ones
BestFrameIdx(qualityGrids, row, col) ==
  CHOOSE i \in 1..Len(qualityGrids) :
    /\ \A k \in 1..Len(qualityGrids) : qualityGrids[k][row][col] <= qualityGrids[i][row][col]
    /\ \A k \in 1..(i - 1) : qualityGrids[k][row][col] < qualityGrids[i][row][col]

\* the output before the seams are smoothed: a new ImageData, all zero, in
\* which every cell of the grid is copied from the best frame for the cell
ComposeCells(framesToMerge, qualityGrids, gridSize, width, height) ==
  LET cellWidth == width \div gridSize
      cellHeight == height \div gridSize
      best == [row \in 0..(gridSize - 1) |->
                 [col \in 0..(gridSize - 1) |-> BestFrameIdx(qualityGrids, row, col)]]
      written(x, y) ==
        /\ cellWidth > 0 /\ cellHeight > 0
        /\ x \div cellWidth < gridSize /\ y \div cellHeight < gridSize
  IN  CHOOSE result \in
        {Image(width, height,
               [i \in 0..(width * height * 4 - 1) |->
                  LET x == (i \div 4) % width
                      y == (i \div 4) \div width
                  IN  IF written(x, y)
                      THEN framesToMerge[b[y \div cellHeight][x \div cellWidth]].data[i]
                      ELSE 0])
         : b \in {best}} : TRUE

\* Math.round(data[idx + c] * weight + data[a + c] * sideWeight
\*              + data[b + c] * sideWeight) for c = 0, 1, 2, where
\* weight = 1 - |offset| * 0.3 and sideWeight = (1 - weight) / 2; the data
\* are a tuple here, data[i] at place i + 1
Blend(data, idx, a, b, offset) ==
  IF offset = 0 THEN data
  ELSE [data EXCEPT
          ![idx + 1] = (14 * data[idx + 1] + 3 * data[a + 1] + 3 * data[b + 1] + 10) \div 20,
          ![idx + 2] = (14 * data[idx + 2] + 3 * data[a + 2] + 3 * data[b + 2] + 10) \div 20,
          ![idx + 3] = (14 * data[idx + 3] + 3 * data[a + 3] + 3 * data[b + 3] + 10) \div 20]

\* one step of the loop over the vertical boundaries: the pixel at
\* blendX = x + offset of line y, if (blendX > 0 && blendX < width - 1)
BlendVertical(data, x, y, offset, width) ==
  LET idx == (y * width + x + offset) * 4
  IN  IF x + offset > 0 /\ x + offset < width - 1
      THEN Blend(data, idx, idx - 4, idx + 4, offset)
      ELSE data

\* for (let y = ...) for (let offset = -1; offset <= 1; offset++), from y on
RECURSIVE SmoothColumn(_, _, _, _, _)
SmoothColumn(data, x, y, width, height) ==
  IF y >= height THEN data
  ELSE CHOOSE result \in
         {SmoothColumn(d3, x, y + 1, width, height)
          : d3 \in {BlendVertical(d2, x, y, 1, width)
                    : d2 \in {BlendVertical(d1, x, y, 0, width)
                              : d1 \in {BlendVertical(data, x, y, -1, width)}}}} : TRUE

\* the loop over the vertical boundaries, from boundary col on
RECURSIVE SmoothVertical(_, _, _, _, _)
SmoothVertical(data, col, gridSize, width, height) ==
  IF col >= gridSize THEN data
  ELSE CHOOSE result \in
         {SmoothVertical(smoothed, col + 1, gridSize, width, height)
          : smoothed \in
              {IF col * (width \div gridSize) >= width - 1 THEN data
               ELSE SmoothColumn(data, col * (width \div gridSize), 0, width, height)}}
         : TRUE

\* one step of the loop over the horizontal boundaries: the pixel at
\* blendY = y + offset of column x, if (blendY > 0 && blendY < height - 1)
BlendHorizontal(data, x, y, offset, width, height) ==
  LET idx == ((y + offset) * width + x) * 4
  IN  IF y + offset > 0 /\ y + offset < height - 1
      THEN Blend(data, idx, idx - 4 * width, idx + 4 * width, offset)
      ELSE data

\* for (let x = ...) for (let offset = -1; offset <= 1; offset++), from x on
RECURSIVE SmoothRow(_, _, _, _, _)
SmoothRow(data, x, y, width, height) ==
  IF x >= width THEN data
  ELSE CHOOSE result \in
         {SmoothRow(d3, x + 1, y, width, height)
          : d3 \in {BlendHorizontal(d2, x, y, 1, width, height)
                    : d2 \in {BlendHorizontal(d1, x, y, 0, width, height)
                              : d1 \in {BlendHorizontal(data, x, y, -1, width, height)}}}}
         : TRUE

\* the loop over the horizontal boundaries, from boundary row on
RECURSIVE SmoothHorizontal(_, _, _, _, _)
SmoothHorizontal(data, row, gridSize, width, height) ==
  IF row >= gridSize THEN data
  ELSE CHOOSE result \in
         {SmoothHorizontal(smoothed, row + 1, gridSize, width, height)
          : smoothed \in
              {IF row * (height \div gridSize) >= height - 1 THEN data
               ELSE SmoothRow(data, 0, row * (height \div gridSize), width, height)}}
         : TRUE

\* smoothCellBoundaries(imageData, gridSize), as the image it leaves
smoothCellBoundaries(imageData, gridSize) ==
  LET width == imageData.width
      height == imageData.height
      data == [p \in 1..(width * height * 4) |-> imageData.data[p - 1]] \o <<>>
  IN  CHOOSE result \in
        {Image(width, height, [i \in 0..(width * height * 4 - 1) |-> smoothed[i + 1]])
         : smoothed \in
             {SmoothHorizontal(vertical, 1, gridSize, width, height)
              : vertical \in {SmoothVertical(data, 1, gridSize, width, height)}}} : TRUE

\* frameGroup.qualityScores.indexOf(Math.max(...frameGroup.qualityScores))
ReferenceIdx(qualityScores) ==
  IF Len(qualityScores) = 0 THEN -1
  ELSE (CHOOSE i \in 1..Len(qualityScores) :
          /\ \A k \in 1..Len(qualityScores) : qualityScores[k] <= qualityScores[i]
          /\ \A k \in 1..(i - 1) : qualityScores[k] < qualityScores[i]) - 1

\* the cells whose best quality is below 20% of the average quality
PoorRegions(qualityGrids, gridSize) ==
  LET cells == (0..(gridSize - 1)) \X (0..(gridSize - 1))
      qualityCount == Len(qualityGrids) * gridSize * gridSize
      RECURSIVE total(_)
      total(k) ==
        IF k >= qualityCount THEN 0
        ELSE qualityGrids[1 + (k \div (gridSize * gridSize))]
                         [(k \div gridSize) % gridSize][k % gridSize]
               + total(k + 1)
  IN  CHOOSE result \in
        {Cardinality({cell \in cells :
           5 * qualityCount
             * qualityGrids[BestFrameIdx(qualityGrids, cell[1], cell[2])][cell[1]][cell[2]]
             < t})
         : t \in {total(0)}} : TRUE

\* the result of the merger with metrics
MergeResult(imageData, poorRegions, totalRegions, alignmentSuccess) ==
  [imageData |-> imageData,
   metrics |-> [poorRegions |-> poorRegions, totalRegions |-> totalRegions,
                alignmentSuccess |-> alignmentSuccess]]

\* the frames that are scored and copied: aligned to the frame of the best
\* quality score when alignment is enabled and every frame has an entry of
\* corners
FramesToMerge(frameGroup, enableAlignment) ==
  IF enableAlignment /\ Len(frameGroup.corners) = Len(frameGroup.frames)
  THEN alignFramesToReference(frameGroup.frames, frameGroup.corners,
                              ReferenceIdx(frameGroup.qualityScores))
  ELSE frameGroup.frames

\* the merger that takes a single frame through the grid as well
mergeFramesMetrics_NoSingle(frameGroup, gridSize, enableAlignment) ==
  IF Len(frameGroup.frames) = 0 THEN Throws("No frames to merge")
  ELSE
  LET width == frameGroup.frames[1].width
      height == frameGroup.frames[1].height
      alignmentSuccess ==
        enableAlignment /\ Len(frameGroup.corners) = Len(frameGroup.frames)
  IN  CHOOSE result \in
        {IF Raised(framesToMerge) # {} THEN framesToMerge[1]
         ELSE CHOOSE merged \in
                {MergeResult(
                   smoothCellBoundaries(
                     ComposeCells(framesToMerge, qualityGrids, g, width, height), g),
                   PoorRegions(qualityGrids, g), g * g, alignmentSuccess)
                 : qualityGrids \in
                     {[i \in 1..Len(framesToMerge) |->
                         analyzeRegionQuality(framesToMerge[i], g)]}} : TRUE
         : framesToMerge \in {FramesToMerge(frameGroup, enableAlignment)},
           g \in {GridSizeFor(gridSize, width, height)}} : TRUE

\* mergeFrames(frameGroup, gridSize, enableAlignment) of the merger with
\* metrics: the image of the best cells of the frames, its seams smoothed,
\* with the number of poor cells, the number of cells, and whether the
\* frames were aligned
mergeFramesMetrics(frameGroup, gridSize, enableAlignment) ==
  IF Len(frameGroup.frames) = 0 THEN Throws("No frames to merge")
  ELSE IF Len(frameGroup.frames) = 1
  THEN MergeResult(frameGroup.frames[1], 0, 1, FALSE)
  ELSE
  LET width == frameGroup.frames[1].width
      height == frameGroup.frames[1].height
      alignmentSuccess ==
        enableAlignment /\ Len(frameGroup.corners) = Len(frameGroup.frames)
  IN  CHOOSE result \in
        {IF Raised(framesToMerge) # {} THEN framesToMerge[1]
         ELSE CHOOSE merged \in
                {MergeResult(
                   smoothCellBoundaries(
                     ComposeCells(framesToMerge, qualityGrids, g, width, height), g),
                   PoorRegions(qualityGrids, g), g * g, alignmentSuccess)
                 : qualityGrids \in
                     {[i \in 1..Len(framesToMerge) |->
                         analyzeRegionQuality(framesToMerge[i], g)]}} : TRUE
         : framesToMerge \in {FramesToMerge(frameGroup, enableAlignment)},
           g \in {GridSizeFor(gridSize, width, height)}} : TRUE

----------------------------------------------------------------------------
(* A client of the merger with metrics *)

\* Frames of two sizes, one with sides that are multiples of 2 and one
\* without: flat (0), sharp in the left half (1), sharp in the right half (2).
MergeSizes == {<<MergeSide + 1, MergeSide - 1>>, <<MergeSide + 2, MergeSide>>}

MergeFrame(pattern, size) ==
  LET width == size[1]
      height == size[2]
      gray(x, y) ==
        IF (pattern = 1 /\ 2 * x < width) \/ (pattern = 2 /\ 2 * x >= width)
        THEN 4 * ((x + y) % 2)
        ELSE 2
  IN  Image(width, height,
            [i \in 0..(width * height * 4 - 1) |->
               IF i % 4 = 3 THEN 255 ELSE gray((i \div 4) % width, (i \div 4) \div width)])

RECURSIVE MergeFrameSeqs(_, _, _)
MergeFrameSeqs(patterns, size, n) ==
  IF n = 0 THEN {<<>>}
  ELSE MergeFrameSeqs(patterns, size, n - 1)
         \cup {Append(s, MergeFrame(k, size)) :
                 s \in {t \in MergeFrameSeqs(patterns, size, n - 1) : Len(t) = n - 1},
                 k \in patterns}

\* Corners of a frame: a square, the square moved one pixel to the right, a
\* set of three points, four points of which the first three are on a line.
Square == CornersOf(<<Pt(1, 1), Pt(5, 1), Pt(5, 5), Pt(1, 5)>>)
MovedSquare == CornersOf(<<Pt(2, 1), Pt(6, 1), Pt(6, 5), Pt(2, 5)>>)
ThreeCorners == CornersOf(<<Pt(1, 1), Pt(5, 1), Pt(5, 5)>>)
OnALine == CornersOf(<<Pt(1, 1), Pt(3, 1), Pt(5, 1), Pt(1, 5)>>)

CornerOptions == {Null, Square, MovedSquare, ThreeCorners, OnALine}

\* the lists of corners of a group of n frames: none, the same square for
\* every frame, a moved square for the first frame, no set for the last
GroupCorners(n) ==
  {<<>>, [i \in 1..n |-> Square],
   [i \in 1..n |-> IF i = 1 THEN MovedSquare ELSE Square],
   [i \in 1..n |-> IF i = n THEN Null ELSE Square]}

GridSizes == {0, 2, 3, 8}

\* mergeFrames(frameGroup), mergeFrames(frameGroup, gridSize) or
\* mergeFrames(frameGroup, gridSize, enableAlignment); a parameter that is
\* not given has its default
CallMergeFramesMetrics ==
  /\ lib.op = "none"
  /\ \E size \in MergeSizes :
       \E frames \in MergeFrameSeqs(0..2, size, MaxMergeFrames) :
         \E corners \in GroupCorners(Len(frames)) :
           \E rest \in {<<>>} \cup {<<g>> : g \in GridSizes}
                         \cup {<<g, e>> : g \in GridSizes, e \in BOOLEAN} :
             LET frameGroup == [pageNumber |-> 0, frames |-> frames, corners |-> corners,
                                qualityScores |-> [k \in 1..Len(frames) |-> 50 + (k \div 2)],
                                timestamps |-> [k \in 1..Len(frames) |-> k]]
                 gridSize == IF Len(rest) >= 1 THEN rest[1] ELSE 8
                 enableAlignment == IF Len(rest) >= 2 THEN rest[2] ELSE FALSE
             IN  lib' = LibCall("mergeFramesMetrics", <<frameGroup>> \o rest,
                                mergeFramesMetrics(frameGroup, gridSize, enableAlignment))
  /\ UNCHANGED <<limitVars, trackerVars, pagesVars, progress, multi>>

\* alignFramesToReference(frames, cornerSets, referenceIdx)
CallAlignFrames ==
  /\ lib.op = "none"
  /\ \E frames \in MergeFrameSeqs(1..2, <<MergeSide + 2, MergeSide>>, MaxMergeFrames) :
       \E cornerSets \in {<<>>} \cup [1..Len(frames) -> CornerOptions] :
         \E referenceIdx \in 0..Max(Len(frames) - 1, 0) :
           lib' = LibCall("alignFramesToReference", <<frames, cornerSets, referenceIdx>>,
                          alignFramesToReference(frames, cornerSets, referenceIdx))
  /\ UNCHANGED <<limitVars, trackerVars, pagesVars, progress, multi>>

NextCompose == CallMergeFramesMetrics \/ CallAlignFrames

SpecCompose == Init /\ [][NextCompose]_vars

----------------------------------------------------------------------------
(* A client of one StabilityTracker *)

DetectionInputs == {Null} \cup {Detection(q, 90, now) : q \in Quads}
FrameInputs == {Null} \cup Frames

\* What a detector sees on two frames: a page, and the page moved.
WindowInputs ==
  { <<Detection(QuadA, 90, now), Frame(10)>>,
    <<Detection(QuadFar, 90, now), Frame(30)>> }

AddFrom(inputs, maxOps) ==
  /\ nOps < maxOps
  /\ \E in \in inputs :
       /\ tracker' = addDetection(tracker, in[1], in[2], now)
       /\ call' = Call("addDetection", in[1], in[2], Void)
  /\ nOps' = nOps + 1
  /\ UNCHANGED <<limitVars, lib, now, pagesVars, progress, multi>>

ResetWithin(maxOps) ==
  /\ nOps < maxOps
  /\ tracker' = reset(tracker)
  /\ call' = Call("reset", Null, Null, Void)
  /\ nOps' = nOps + 1
  /\ UNCHANGED <<limitVars, lib, now, pagesVars, progress, multi>>

TrackerAdd == AddFrom(DetectionInputs \X FrameInputs, MaxOps)

TrackerReset == ResetWithin(MaxOps)

TrackerQuery ==
  /\ call' = Call("getStableDetection", Null, Null, getStableDetection(tracker))
  /\ UNCHANGED <<limitVars, lib, tracker, now, nOps, pagesVars, progress, multi>>

Tick ==
  /\ now < MaxTicks * TickMs
  /\ now' = now + TickMs
  /\ UNCHANGED <<limitVars, lib, tracker, call, nOps, pagesVars, progress, multi>>

NextTracker == TrackerAdd \/ TrackerReset \/ TrackerQuery \/ Tick

SpecTracker == Init /\ [][NextTracker]_vars

\* Long runs on the frames of one scene, the clock standing still.
WindowAdd == AddFrom(WindowInputs, MaxWindowOps)

WindowReset == ResetWithin(MaxWindowOps)

NextWindow == WindowAdd \/ WindowReset

SpecWindow == Init /\ [][NextWindow]_vars

----------------------------------------------------------------------------
(* Properties of the StabilityTracker *)

\* all 4 corresponding corners no further apart than 2 x stabilityThreshold
CornersClose(d1, d2) ==
  \A j \in 1..4 :
    DistSq(d1.corners[j], d2.corners[j])
      <= (2 * DEFAULT_OPTIONS.stabilityThreshold) * (2 * DEFAULT_OPTIONS.stabilityThreshold)

\* the motion scores of the (at most 2) most recent frames
RecentScores(tr) ==
  {tr.motionHistory[i].motionScore :
     i \in Max(1, Len(tr.motionHistory) - 1)..Len(tr.motionHistory)}

AddStep == nOps' = nOps + 1 /\ call'.op = "addDetection"
ResetStep == nOps' = nOps + 1 /\ call'.op = "reset"
QueryStep == call'.op = "getStableDetection" /\ nOps' = nOps /\ now' = now

\* C3: whenever isStable() is true, the two most recent detections have all
\* 4 corners within 2 x stabilityThreshold and the motion scores recorded
\* for the most recent frames are below motionThreshold.
C3_StableMeansSettled ==
  isStable(tracker) =>
    /\ Len(tracker.history) >= 2
    /\ CornersClose(tracker.history[Len(tracker.history) - 1], Last(tracker.history))
    /\ \A m \in RecentScores(tracker) : m < DEFAULT_OPTIONS.motionThreshold

\* C4: isStable() is false whenever the detection history holds 0 or 1
\* detections, whatever the motion history contains.
C4_FewDetectionsUnstable ==
  Len(tracker.history) <= 1 => ~isStable(tracker)

\* one detection on record after three quiet frames
C4_Witness ==
  /\ Len(tracker.history) = 1
  /\ Len(tracker.motionHistory) = 2
  /\ RecentScores(tracker) = {0}

\* C5: getStableDetection() returns the most recently added detection if
\* and only if isStable() holds in the state it is called in, null
\* otherwise, and leaves the tracker as it was.
C5_StableDetectionIsLatest ==
  [][QueryStep =>
       /\ tracker' = tracker
       /\ call'.result = IF isStable(tracker) THEN Last(tracker.history) ELSE Null
       /\ (call'.result # Null <=> isStable(tracker))]_vars

\* a query answered with the later of two different detections
C5_Witness ==
  /\ call.op = "getStableDetection"
  /\ call.result # Null
  /\ Len(tracker.history) = 2
  /\ tracker.history[1] # tracker.history[2]
  /\ call.result = tracker.history[2]

\* C6: addDetection(null, frame) keeps the detection history when at most
\* 1000 ms passed since the latest recorded detection and empties it when
\* more passed; a detection that follows a miss which kept the history, has
\* its corners close to the one before the miss and comes after quiet
\* frames makes the tracker stable.
C6_MissWithinTimeoutKeepsHistory ==
  /\ [][(AddStep /\ call'.detection = Null) =>
          tracker'.history =
            IF Len(tracker.history) > 0 /\ now - Last(tracker.history).timestamp > 1000
            THEN <<>> ELSE tracker.history]_vars
  /\ [][(/\ AddStep /\ call'.detection # Null
         /\ call.op = "addDetection" /\ call.detection = Null
         /\ Len(tracker.history) >= 1
         /\ CornersClose(Last(tracker.history), call'.detection)
         /\ \A m \in RecentScores(tracker') : m = 0)
        => isStable(tracker')]_vars

\* a miss exactly 1000 ms after the one recorded detection, which is kept
C6_Witness ==
  /\ call.op = "addDetection" /\ call.detection = Null
  /\ Len(tracker.history) = 1
  /\ now - Last(tracker.history).timestamp = 1000

\* C7: reset() empties both histories and keeps the stored previous frame;
\* the first addDetection with a frame after it records the motion against
\* the last frame seen before the reset.
C7_ResetKeepsPreviousFrame ==
  /\ [][ResetStep =>
          /\ tracker'.history = <<>>
          /\ tracker'.motionHistory = <<>>
          /\ tracker'.previousFrame = tracker.previousFrame]_vars
  /\ [][(AddStep /\ call.op = "reset" /\ call'.frame # Null
         /\ tracker.previousFrame # Null)
        => tracker'.motionHistory =
             <<[motionScore |-> detectMotion(call'.frame, tracker.previousFrame)]>>]_vars

\* a reset of a tracker that has seen a frame
C7_Witness ==
  /\ call.op = "reset"
  /\ tracker.previousFrame # Null
  /\ tracker.history = <<>>
  /\ tracker.motionHistory = <<>>

\* C8: both histories hold at most 10 entries in insertion order; adding
\* to a full history evicts exactly the oldest entry.
C8_BoundedWindow ==
  /\ [](Len(tracker.history) <= 10 /\ Len(tracker.motionHistory) <= 10)
  /\ [][(AddStep /\ call'.detection # Null) =>
          tracker'.history =
            IF Len(tracker.history) < 10
            THEN Append(tracker.history, call'.detection)
            ELSE Append(Tail(tracker.history), call'.detection)]_vars
  /\ [][(AddStep /\ call'.frame # Null /\ tracker.previousFrame # Null) =>
          LET sample == [motionScore |-> detectMotion(call'.frame, tracker.previousFrame)]
          IN  tracker'.motionHistory =
                IF Len(tracker.motionHistory) < 10
                THEN Append(tracker.motionHistory, sample)
                ELSE Append(Tail(tracker.motionHistory), sample)]_vars

\* the 11th detection and the 11th motion sample pushed out the first ones
C8_Witness ==
  /\ nOps = 12
  /\ Len(tracker.history) = 10
  /\ Len(tracker.motionHistory) = 10
  /\ tracker.history[1] # tracker.history[10]
  /\ tracker.motionHistory[1] # tracker.motionHistory[10]

----------------------------------------------------------------------------
(* Properties of the page scans *)

\* C1: with page detection enabled and no page detected in the whole
\* video, processVideo hands on the regularly sampled, quality-filtered
\* frames: one frame per sampled time step that passes the quality filter.
C1_FallbackToRawFrames ==
  (svc.pc \in {"uploading", "pdf", "storing", "done"} /\ ext[1].sampledPages = 0)
    => Len(svc.processedFrames) = ext[1].sampledSharp

\* C2: a frame is appended to the captured pages only if the tracker is
\* stable after that frame was passed to addDetection.
C2_CaptureOnlyWhenStable ==
  [][\A h \in Calls :
       Len(ext'[h].detectedPages) > Len(ext[h].detectedPages) => isStable(tracker')]_vars

\* C9: every candidate that the multi-frame scan completes, on any of its
\* paths, holds at least 2 frames, whatever framesPerPage is; so does every
\* page it returns.
C9_EmittedHaveTwoFrames ==
  /\ \A i \in 1..Len(multi.pageCandidates) : Len(multi.pageCandidates[i].frames) >= 2
  /\ multi.result # Null =>
       /\ Len(multi.result.pages) = Len(multi.pageCandidates)
       /\ \A i \in 1..Len(multi.result.pages) : multi.result.pages[i].merged >= 2

\* a scan with framesPerPage = 1 that returned a page and dropped its open
\* candidate of one frame
C9_Witness ==
  /\ multi.pc = "done"
  /\ multi.opts.framesPerPage = 1
  /\ Len(multi.result.pages) >= 1
  /\ multi.currentPageCandidate # Null
  /\ Len(multi.currentPageCandidate.frames) = 1

\* C10: the multi-frame scan stops as soon as 4 candidates are completed
\* and returns at most 4 pages, the flush of the open candidate included.
C10_PageBudget ==
  /\ Len(multi.pageCandidates) <= 4
  /\ Len(multi.pageCandidates) >= 4 => multi.pc = "done"
  /\ multi.result # Null => Len(multi.result.pages) <= 4

\* a scan that stopped before the end of the video with 4 pages, a new
\* candidate just opened
C10_Witness ==
  /\ multi.pc = "done"
  /\ Len(multi.result.pages) = 4
  /\ multi.time < multi.opts.duration
  /\ multi.currentPageCandidate # Null

\* C12: every page captured by extractPagesFromVideo lies at least 0.2 in
\* histogram distance from every page captured earlier in the same run, not
\* only from the one captured last; a frame within 0.2 of any earlier page
\* is never added.
C12_CapturedPagesDiffer ==
  /\ [](\A h \in Calls : \A i, j \in 1..Len(ext[h].detectedPages) :
          i < j =>
            ~RatLess(compareHistograms(ext[h].detectedPages[i].histogram,
                                       ext[h].detectedPages[j].histogram),
                     Rat(2, 10)))
  /\ [][\A h \in Calls :
         Len(ext'[h].detectedPages) > Len(ext[h].detectedPages) =>
           /\ ext'[h].detectedPages = Append(ext[h].detectedPages, Last(ext'[h].detectedPages))
           /\ \A i \in 1..Len(ext[h].detectedPages) :
                ~RatLess(compareHistograms(Last(ext'[h].detectedPages).histogram,
                                           ext[h].detectedPages[i].histogram),
                         Rat(2, 10))]_vars

\* with two pages captured, a frame that shows the first one again was
\* rejected as a duplicate of page 1
C12_Witness ==
  /\ Len(ext[1].detectedPages) = 2
  /\ ext[1].duplicateOf = 1
  /\ call.op = "addDetection" /\ call.detection # Null
  /\ FrameHistogram[canvas] = ext[1].detectedPages[1].histogram
  /\ FrameHistogram[canvas] # ext[1].detectedPages[2].histogram

\* the candidates of the multi-frame scan, the open one included
AllCandidates ==
  IF multi.currentPageCandidate = Null THEN multi.pageCandidates
  ELSE Append(multi.pageCandidates, multi.currentPageCandidate)

\* C13: in extractPagesWithMultiFrame every frame stored in any candidate
\* has a detection with confidence above 0.5 and a sharpness of at least
\* minQualityScore, and the loop body leaves the open candidate and the
\* completed candidates as they are on a frame that fails either condition.
C13_OnlyAcceptedFramesCount ==
  /\ \A i \in 1..Len(AllCandidates) : \A k \in 1..Len(AllCandidates[i].frames) :
       LET frame == AllCandidates[i].frames[k]
       IN  /\ frame.pageDetection # Null
           /\ frame.pageDetection.confidence > 50
           /\ frame.qualityScore >= multi.opts.minQualityScore
  /\ multi.pc = "seeking" =>
       \A scene \in MultiScenes :
         (\/ scene.page = Null
          \/ scene.page.confidence <= 50
          \/ scene.quality < multi.opts.minQualityScore)
         => LET after == MultiBody(multi, scene, now)
            IN  /\ after.currentPageCandidate = multi.currentPageCandidate
                /\ after.pageCandidates = multi.pageCandidates
                /\ after.time = multi.time

\* a candidate is open and the samples after its last frame were passed
\* over: the scan is 2 or more intervals beyond that frame
C13_Witness ==
  /\ multi.pc = "seeking"
  /\ multi.currentPageCandidate # Null
  /\ Len(multi.currentPageCandidate.frames) >= 2
  /\ Len(multi.pageCandidates) >= 1
  /\ multi.time >= multi.currentPageCandidate.endTime + 2 * multi.opts.intervalSeconds

\* C14: while the second video of one extractor is scanned, the closure of
\* the first call stays as its finished scan left it (its 'loadedmetadata'
\* handler does not run again) and the shared video element is only ever
\* sought forward, by the one loop of the second call.
C14_OneLoopPerVideo ==
  [][(svc.call = 2 /\ svc'.call = 2) =>
       /\ ext'[1] = ext[1]
       /\ video'.currentTime >= video.currentTime]_vars

\* the homography system of a corner set has no solution the elimination can
\* use: a pivot is zero or not a number
SingularSystem(corners) ==
  LET w == RoundSqrt(Max(DistSq(corners[1], corners[2]), DistSq(corners[4], corners[3])))
      h == RoundSqrt(Max(DistSq(corners[1], corners[4]), DistSq(corners[2], corners[3])))
      solution == calculateHomography(<<Pt(0, 0), Pt(w, 0), Pt(w, h), Pt(0, h)>>, corners)
  IN  \E i \in 1..8 : solution[i].k # "fin"

\* C15: applyPerspectiveCorrection with the four corners of the image as
\* source corners returns an image of the same dimensions whose every
\* pixel, those of the last row and the last column included, equals the
\* pixel of the original.
C15_ImageCornersGiveTheImage ==
  (lib.op = "applyPerspectiveCorrection" /\ lib.args[2] = ImageCorners(lib.args[1]))
    => lib.result = lib.args[1]

\* C16: when the homography system of a page is singular, page extraction
\* outputs the uncorrected image.
C16_SingularFallsBack ==
  (lib.op = "PageBlob" /\ SingularSystem(lib.args[2]))
    => lib.result = Blob(lib.args[1])

\* C11: one physical page never yields two emitted pages of the multi-frame
\* scan: any two completed candidates differ in content, their histograms
\* lying at least 0.2 apart.
\* the quadrilaterals that the contours yield
QuadsOf(contours) ==
  LET yields == {i \in 1..Len(contours) :
                   /\ findQuadrilateral(contours[i]) # Null
                   /\ Len(findQuadrilateral(contours[i])) = 4}
  IN  {findQuadrilateral(contours[i]) : i \in yields}

Qualifying(contours, frameArea, minArea) ==
  {q \in QuadsOf(contours) :
     calculatePolygonArea(q).num * 100 >= minArea * frameArea * calculatePolygonArea(q).den}

CornerSet(q) == {q[i] : i \in DOMAIN q}

\* C17: detectPage returns null exactly when no contour of the frame yields a
\* quadrilateral of at least minArea times the area of the frame, and returns
\* otherwise the corners of such a quadrilateral of the greatest area, for
\* every minArea including 0.
C17_LargestQualifyingQuad ==
  lib.op = "detectPage" =>
    LET qualifying == Qualifying(lib.args[1], lib.args[2], lib.args[3])
    IN  /\ (lib.result = Null) <=> (qualifying = {})
        /\ lib.result # Null =>
             \E q \in qualifying :
               /\ \A r \in qualifying :
                    ~RatLess(calculatePolygonArea(q), calculatePolygonArea(r))
               /\ CornerSet(lib.result) = CornerSet(q)

\* two contours yield quadrilaterals of different areas and minArea is 0
C17_Witness ==
  /\ lib.op = "detectPage"
  /\ lib.args[3] = 0
  /\ lib.result # Null
  /\ \E q, r \in QuadsOf(lib.args[1]) :
       RatLess(calculatePolygonArea(q), calculatePolygonArea(r))

\* a frame whose quadrilaterals are all smaller than minArea
C17_WitnessNull ==
  /\ lib.op = "detectPage"
  /\ lib.result = Null
  /\ QuadsOf(lib.args[1]) # {}

FromCentroid(corners, p) ==
  Pt(4 * p.x - (corners[1].x + corners[2].x + corners[3].x + corners[4].x),
     4 * p.y - (corners[1].y + corners[2].y + corners[3].y + corners[4].y))

\* C18: the corners of a detected page are exactly 4, a permutation of the
\* vertices of the selected quadrilateral, a rotation of their order by angle
\* around the centroid, and the first of them has the least x + y.
C18_CornersOrdered ==
  (lib.op = "detectPage" /\ lib.result # Null) =>
    LET quad == SelectQuad(lib.args[1], 1, lib.args[2], lib.args[3], Null, Rat(0, 1))
        corners == lib.result
        angleLess(i, j) ==
          AngleLess(FromCentroid(corners, corners[i]), FromCentroid(corners, corners[j]))
        turned(k, m) == ((k + m - 1) % 4) + 1
    IN  /\ DOMAIN corners = 1..4
        /\ \E perm \in [1..4 -> 1..4] :
             /\ \A i, j \in 1..4 : i # j => perm[i] # perm[j]
             /\ \A i \in 1..4 : corners[i] = quad[perm[i]]
        /\ \E k \in 0..3 :
             \A m \in 1..3 : ~angleLess(turned(k, m + 1), turned(k, m))
        /\ \A i \in 1..4 :
             corners[1].x + corners[1].y <= corners[i].x + corners[i].y

\* the corner of the least x + y is not the corner of the least angle
C18_Witness ==
  /\ lib.op = "detectPage"
  /\ lib.result # Null
  /\ \E i \in 2..4 :
       AngleLess(FromCentroid(lib.result, lib.result[i]),
                 FromCentroid(lib.result, lib.result[1]))

\* C19: a histogram compared with itself is at distance 0, also when some of
\* its bins are empty.
C19_SelfDistanceZero ==
  (lib.op = "compareHistograms" /\ lib.args[1] = lib.args[2]) =>
    lib.result = Rat(0, 1)

\* a histogram with empty bins and filled ones was compared with itself
C19_Witness ==
  /\ lib.op = "compareHistograms"
  /\ lib.args[1] = lib.args[2]
  /\ \E i \in 0..(HistBins - 1) : BinNum(lib.args[1], i) = 0
  /\ \E i \in 0..(HistBins - 1) : BinNum(lib.args[1], i) > 0

\* C20: mergeFrames on a group of zero frames throws 'No frames to merge'
\* and gives no image; the scan never gets there, because every candidate it
\* completes holds at least 2 images, and so it is never rejected with it.
C20_NoFramesToMerge ==
  /\ (lib.op = "mergeFrames" /\ Len(lib.args[1].frames) = 0) =>
       lib.result = Throws("No frames to merge")
  /\ \A i \in 1..Len(multi.pageCandidates) :
       /\ Len(multi.pageCandidates[i].imageDataArray) >= 2
       /\ mergeFrames(FrameGroup(multi.pageCandidates[i], i - 1))
            # Throws("No frames to merge")
  /\ multi.result # Null =>
       /\ "pages" \in DOMAIN multi.result
       /\ \A i \in 1..Len(multi.result.pages) :
            "width" \in DOMAIN multi.result.pages[i].image

\* a group of zero frames was merged
C20_Witness ==
  /\ lib.op = "mergeFrames"
  /\ Len(lib.args[1].frames) = 0
  /\ "throws" \in DOMAIN lib.result

\* a scan that returned the merged images of its pages
C20_WitnessScan ==
  /\ multi.pc = "done"
  /\ Len(multi.result.pages) >= 2
  /\ \A i \in 1..Len(multi.result.pages) :
       "cellsOf" \in DOMAIN multi.result.pages[i].image

\* C21: the merger with metrics, given a group of exactly one frame, returns
\* the pixels of that frame unchanged and reports alignmentSuccess = false,
\* whatever grid size and alignment switch it is called with.
C21_SingleFramePassThrough ==
  (lib.op = "mergeFramesMetrics" /\ Len(lib.args[1].frames) = 1) =>
    /\ lib.result.imageData = lib.args[1].frames[1]
    /\ lib.result.metrics.alignmentSuccess = FALSE

\* one frame with corners was merged with a grid size and alignment enabled
C21_Witness ==
  /\ lib.op = "mergeFramesMetrics"
  /\ Len(lib.args[1].frames) = 1
  /\ Len(lib.args[1].corners) = 1
  /\ Len(lib.args) = 3
  /\ lib.args[2] = 2
  /\ lib.args[3]
  /\ lib.result.imageData = lib.args[1].frames[1]

\* C22: the merger with metrics chooses the grid size by the resolution (6
\* below 1,000,000 pixels, 8 below 4,000,000, 10 otherwise) only when the
\* caller gives none; a grid size that the caller gives, 8 included, is the
\* one of the reported totalRegions = gridSize * gridSize.
C22_ExplicitGridSizeUsed ==
  (lib.op = "mergeFramesMetrics" /\ Len(lib.args[1].frames) >= 2) =>
    LET width == lib.args[1].frames[1].width
        height == lib.args[1].frames[1].height
        byResolution == IF width * height < 1000000 THEN 6
                        ELSE IF width * height < 4000000 THEN 8
                        ELSE 10
    IN  /\ Len(lib.args) = 1 =>
             lib.result.metrics.totalRegions = byResolution * byResolution
        /\ (Len(lib.args) >= 2 /\ lib.args[2] > 0) =>
             lib.result.metrics.totalRegions = lib.args[2] * lib.args[2]

\* C26: when two or more frames of one size are merged, every pixel of the
\* image that is composed from them, before its seams are smoothed, is the
\* pixel of the frame that scored highest for the cell of the grid that
\* holds the pixel, the earliest of the frames that score the same; this
\* holds for widths and heights that are no multiples of the grid size as
\* well, so that no pixel of the output is left unwritten.
C26_EveryPixelFromBestFrame ==
  (lib.op = "mergeFramesMetrics" /\ Len(lib.args[1].frames) >= 2) =>
    LET frameGroup == lib.args[1]
        width == frameGroup.frames[1].width
        height == frameGroup.frames[1].height
        gridSize == GridSizeFor(IF Len(lib.args) >= 2 THEN lib.args[2] ELSE 8, width, height)
        frames == FramesToMerge(frameGroup, Len(lib.args) >= 3 /\ lib.args[3])
        qualityGrids == [i \in 1..Len(frames) |-> analyzeRegionQuality(frames[i], gridSize)]
        composed == ComposeCells(frames, qualityGrids, gridSize, width, height)
        \* the cell that holds a pixel: the last cell reaches to the edge
        rowOf(y) == Min(y \div (height \div gridSize), gridSize - 1)
        colOf(x) == Min(x \div (width \div gridSize), gridSize - 1)
    IN  \A i \in 0..(width * height * 4 - 1) :
          composed.data[i]
            = frames[BestFrameIdx(qualityGrids, rowOf((i \div 4) \div width),
                                  colOf((i \div 4) % width))].data[i]

\* C27: alignFramesToReference returns as many frames as it is given, in
\* their order, the reference frame unchanged, and without raising; a frame
\* whose set of corners is missing, has not 4 points, or gives an affine
\* system with |det| < 0.001 is returned unchanged, and when the reference
\* frame has no set of 4 corners all frames are returned unchanged.
C27_AlignmentPassesThrough ==
  lib.op = "alignFramesToReference" =>
    LET frames == lib.args[1]
        cornerSets == lib.args[2]
        referenceIdx == lib.args[3]
        fourCorners(i) ==
          /\ Len(cornerSets) = Len(frames)
          /\ cornerSets[i] # Null
          /\ Len(cornerSets[i].points) = 4
        det(i) ==
          LET src == cornerSets[i].points
          IN  src[1].x * (src[2].y - src[3].y) + src[2].x * (src[3].y - src[1].y)
                + src[3].x * (src[1].y - src[2].y)
    IN  /\ Len(lib.result) = Len(frames)
        /\ Raised(lib.result) = {}
        /\ \A i \in 1..Len(frames) :
             IF \/ i = referenceIdx + 1
                \/ ~fourCorners(referenceIdx + 1)
                \/ ~fourCorners(i)
                \/ 1000 * Abs(det(i)) < 1
             THEN lib.result[i] = frames[i]
             ELSE lib.result[i]
                    = applyAffineTransform(
                        frames[i],
                        calculateAffineTransform(cornerSets[i].points,
                                                 cornerSets[referenceIdx + 1].points))

\* two frames were aligned to the second one, which has a square of
\* corners; the first three corners of the first frame are on a line
C27_Witness ==
  /\ lib.op = "alignFramesToReference"
  /\ Len(lib.args[1]) = 2
  /\ lib.args[1][1] # lib.args[1][2]
  /\ lib.args[2] = <<OnALine, Square>>
  /\ lib.args[3] = 1
  /\ lib.result = lib.args[1]

\* C24: extractPagesFromVideo never returns more pages than maxFrames, for
\* every maxFrames, 0 included, and every video.
C24_AtMostMaxFrames ==
  \A h \in Calls :
    ext[h].result # Null =>
      Len(ext[h].result.pages) <= ext[h].opts.maxFrames

\* C29: the pages that extractPagesFromVideo collects and returns are in
\* strictly increasing order of their timestamps, consecutive pages are
\* more than 1.0 s apart, and the index of every page is its position in
\* the list (0, 1, 2, ...).
C29_PagesInOrder ==
  \A h \in Calls :
    LET inOrder(pages) ==
          /\ \A i \in 1..Len(pages) : pages[i].index = i - 1
          /\ \A i \in 1..(Len(pages) - 1) :
               /\ pages[i].timestamp < pages[i + 1].timestamp
               /\ pages[i + 1].timestamp - pages[i].timestamp > 10
    IN  /\ inOrder(ext[h].detectedPages)
        /\ ext[h].result # Null => inOrder(ext[h].result.pages)

\* a scan returned two pages, the second one not taken at the first sample
\* after the skip
C29_Witness ==
  /\ ext[1].result # Null
  /\ Len(ext[1].result.pages) = 2
  /\ ext[1].result.pages[2].timestamp - ext[1].result.pages[1].timestamp > 18

\* C30: the progress values that a successful processVideo with page
\* detection reports never decrease, lie within 0..100, lie within 10..40
\* while the pages are extracted, and end with 100; this holds also when
\* the scan loop skips ahead after a capture.
C30_ProgressNeverDecreases ==
  /\ [](progress # Null =>
          /\ ~RatLess(progress, Rat(0, 1)) /\ ~RatLess(Rat(100, 1), progress)
          /\ svc.pc = "extracting" =>
               ~RatLess(progress, Rat(10, 1)) /\ ~RatLess(Rat(40, 1), progress)
          /\ svc.pc = "done" => progress = Rat(100, 1))
  /\ [][progress # Null => ~RatLess(progress', progress)]_vars

\* every frame of candidate c lies in the capture window of c
InWindow(c, window) ==
  \A k \in 1..Len(c.frames) :
    /\ c.startTime <= c.frames[k].timestamp
    /\ c.frames[k].timestamp < c.startTime + window

\* the histogram is at a distance below 0.2 from the average of candidate c
Near(histogram, c) ==
  RatLess(compareHistograms(histogram, c.avgHistogram), Rat(2, 10))

\* what a step does to the open candidate: it grows by a frame that passed
\* both tests, or it is replaced by a frame that failed one
CandidateStep ==
  LET window == multi.opts.captureWindow
      cur == multi.currentPageCandidate
      next == multi'.currentPageCandidate
      closed == multi.pageCandidates
      closedNext == multi'.pageCandidates
      \* the candidates of the next state that are the open one, grown
      grown ==
        {c \in {closedNext[i] : i \in (Len(closed) + 1)..Len(closedNext)}
                 \cup (IF next = Null THEN {} ELSE {next}) :
           c.startTime = cur.startTime /\ Len(c.frames) = Len(cur.frames) + 1}
  IN  cur # Null =>
        /\ \A c \in grown :
             /\ SubSeq(c.frames, 1, Len(cur.frames)) = cur.frames
             /\ Near(c.frames[Len(c.frames)].histogram, cur)
             /\ c.frames[Len(c.frames)].timestamp - cur.startTime < window
        /\ (next # Null /\ next.startTime # cur.startTime) =>
             /\ Len(next.frames) = 1
             /\ ~(/\ Near(next.frames[1].histogram, cur)
                  /\ next.startTime - cur.startTime < window)
             /\ closedNext = IF Len(cur.frames) >= 2
                             THEN Append(closed, cur) ELSE closed

\* C28: extractPagesWithMultiFrame holds at most one open candidate; every
\* frame of a candidate has a timestamp t with startTime <= t < startTime +
\* captureWindow and was, when it was added, at a histogram distance below
\* 0.2 from the running average of the candidate; an accepted frame that
\* fails one of the two tests closes the open candidate, which is emitted
\* only with 2 frames or more, and becomes the first frame of a new one.
C28_CandidateWindow ==
  /\ [](multi.opts # Null =>
          /\ \A i \in 1..Len(multi.pageCandidates) :
               /\ InWindow(multi.pageCandidates[i], multi.opts.captureWindow)
               /\ Len(multi.pageCandidates[i].frames) >= 2
          /\ multi.currentPageCandidate # Null =>
               InWindow(multi.currentPageCandidate, multi.opts.captureWindow))
  /\ [][CandidateStep]_vars

\* a candidate of two frames was closed by a frame of the same page that
\* came after the capture window, and that frame opened the next candidate
C28_Witness ==
  /\ multi.opts # Null
  /\ multi.opts.framesPerPage = 4
  /\ Len(multi.pageCandidates) >= 1
  /\ Len(multi.pageCandidates[1].frames) = 2
  /\ multi.currentPageCandidate # Null
  /\ multi.currentPageCandidate.startTime - multi.pageCandidates[1].startTime
       >= multi.opts.captureWindow
  /\ RatLess(compareHistograms(multi.currentPageCandidate.frames[1].histogram,
                               multi.pageCandidates[1].avgHistogram), Rat(2, 10))

\* C25: a multi-frame scan of a video of finite duration with a positive
\* interval, whose seeks all complete, reaches its end: the time of the
\* loop is larger after every iteration, also after the iteration that
\* completes a page and skips ahead; at the end an open candidate of two
\* frames or more is the last of the candidates that are processed; and
\* the promise is settled there, once: what it was settled with never changes
C25_SettledOnce == multi.result # Null => multi' = multi

C25_TimeIncreases == multi.pc = "seeking" => multi'.time > multi.time

C25_ScanReachesItsEnd ==
  /\ (multi.pc = "registered") ~> (multi.pc = "done")
  /\ [][C25_TimeIncreases]_vars
  /\ [][C25_SettledOnce]_vars
  /\ [](multi.pc = "done" <=> multi.result # Null)
  /\ [](multi.pc = "done" /\ multi.currentPageCandidate # Null
          /\ Len(multi.currentPageCandidate.frames) >= 2
        => /\ multi.pageCandidates # <<>>
           /\ multi.pageCandidates[Len(multi.pageCandidates)] = multi.currentPageCandidate
           /\ "pages" \in DOMAIN multi.result
           /\ Len(multi.result.pages) = Len(multi.pageCandidates))

\* a scan that completed a page, skipped ahead, and ended with an open
\* candidate of two frames or more
C25_Witness ==
  /\ multi.pc = "done"
  /\ Len(multi.pageCandidates) >= 2
  /\ multi.currentPageCandidate # Null
  /\ Len(multi.currentPageCandidate.frames) >= 2
  /\ Len(multi.pageCandidates[1].frames) >= multi.opts.framesPerPage

\* C23: whatever calls of processVideo run at the same time, the month's
\* row of a free user never counts more than 5 scans
C23_FreeUserAtMostFiveScans ==
  \A u \in DOMAIN Users :
    Users[u] = "free" /\ usage[u] # Null => usage[u].scan_count <= 5

C11_NoDuplicatePages ==
  \A i, j \in 1..Len(multi.pageCandidates) :
    i < j =>
      ~RatLess(compareHistograms(multi.pageCandidates[i].avgHistogram,
                                 multi.pageCandidates[j].avgHistogram),
               Rat(2, 10))

====
